---- MODULE Spec2Model ----
(***************************************************************************)
(* Pattern-matching engine of the repository: the AdvancedPatternMatcher   *)
(* class (wildcard_match, motif_distance, kmp_search, fuzzy_regex_search,  *)
(* analyze_all, parallel_search) and the standalone functions              *)
(* wildcard_match and find_dna_motifs.                                     *)
(*                                                                         *)
(* A Python str is a sequence of one-character strings.  Source indices    *)
(* are 0-based and kept so; s[k] of the source is s[k + 1] here.           *)
(***************************************************************************)
EXTENDS Integers, Sequences, FiniteSets, TLC

VARIABLES
    stats,      \* self.stats of the matcher object
    wcache,     \* lru_cache of AdvancedPatternMatcher.wildcard_match
    mcache,     \* lru_cache of AdvancedPatternMatcher.motif_distance
    call,       \* the last call made by the caller
    result,     \* what that call returned (or raised)
    evals,      \* how often each (i, j) body ran during the last call
    recorded,   \* an earlier call and its result, kept by the caller
    session,    \* TRUE: a caller making several calls on one matcher
    ncalls,     \* calls made so far
    pool,       \* state of one parallel_search call (multiprocessing.Pool)
    dnarun,     \* one find_dna_motifs call, step by step, with its call stack
    kmprun,     \* one kmp_search call, loop iteration by loop iteration
    game        \* one play_game run of TicTacToe.py

vars == <<stats, wcache, mcache, call, result, evals, recorded, session, ncalls, pool,
          dnarun, kmprun, game>>

matcherVars == <<stats, wcache, mcache, call, result, evals, recorded, session, ncalls>>

-----------------------------------------------------------------------------
(* Bounds of the model and the inputs the caller draws from.               *)

MaxTextLen == 3
MaxPatLen == 3
MaxBudget == 2
MaxPatterns == 2
MaxCalls == 3
MaxCorpora == 3
MaxWorkers == 2

TextAlphabet == {"a", "b"}
PatAlphabet == {"a", "b", "*", "?"}

Strings(alphabet, n) == UNION {[1..k -> alphabet] : k \in 0..n}

\* The inputs of the scenarios the specification pins down.
DnaScenarioText ==
    <<"A","G","C","T","T","A","G","C","T","T","A","G","C","T","T","A","G","C","T","T","A">>
DnaScenarioMotif == <<"G","A","T","T","A","C","A">>
WildScenarioText == <<"a","b","c","d","e","f","g">>
WildScenarioPattern == <<"a","*","b","?","d">>
\* A query that reaches the end of the text at one pattern position from two
\* different pairs.
WildRepeatText == <<"b","b">>
WildRepeatPattern == <<"*","?","*","a">>
KmpScenarioText ==
    <<"A","B","A","B","D","A","B","A","C","D","A","B","A","B","C","A","B","A","B">>
KmpScenarioPattern == <<"A","B","A","B","C","A","B","A","B">>

\* Inputs of a single call on a fresh matcher.
WideInputs == Strings(TextAlphabet, MaxTextLen) \X Strings(PatAlphabet, MaxPatLen)

\* A dna string and a motif, both over the text alphabet.
DnaInputs == Strings(TextAlphabet, MaxTextLen) \X Strings(TextAlphabet, MaxPatLen)

\* Inputs of a session of several calls on one matcher.
SessionText == <<"a", "b">>
SessionInputs == { <<SessionText, <<"*", "b">>>>, <<SessionText, <<"a">>>> }
SessionOne == { <<SessionText, <<"a">>>> }
SessionLists == { <<>>, << <<"*", "b">> >>, << <<"a">>, <<"*", "b">> >> }
SessionBudget == 1

\* Pattern lists handed to analyze_all.
AnalyzePatterns == { <<>>, <<"a">>, <<"*", "b">>, <<"b", "a", "b", "a", "b">> }
PatternLists(pats) == UNION {[1..k -> pats] : k \in 0..MaxPatterns}

Budgets == 0..MaxBudget

-----------------------------------------------------------------------------
(* Helpers for Python values.                                              *)

Range(s) == {s[k] : k \in DOMAIN s}

\* s[a:b] for 0 <= a, with Python's clipping of b to len(s).
Slice(s, a, b) ==
    LET hi == IF b < Len(s) THEN b ELSE Len(s)
    IN  IF a >= hi THEN <<>> ELSE SubSeq(s, a + 1, hi)

\* float('inf'): a value outside the mismatch counts, absorbing under +.
Inf == -1

AddInf(a, b) == IF a = Inf \/ b = Inf THEN Inf ELSE a + b

\* Python's min(a, b) over ints and float('inf').
MinInf(a, b) ==
    IF a = Inf THEN b
    ELSE IF b = Inf THEN a
    ELSE IF b < a THEN b ELSE a

\* a <= k for a mismatch count or float('inf') and an int budget k.
LeqInf(a, k) == a # Inf /\ a <= k

-----------------------------------------------------------------------------
(* AdvancedPatternMatcher.kmp_search                                       *)

\* A faulty variant of KmpLpsStep: lps[i] is stored before length is incremented.
KmpLpsStepStoreBefore(pattern, s) ==
    IF pattern[s.i + 1] = pattern[s.length + 1]
    THEN [lps |-> [s.lps EXCEPT ![s.i + 1] = s.length],
          length |-> s.length + 1,
          i |-> s.i + 1]
    ELSE IF s.length # 0
         THEN [s EXCEPT !.length = s.lps[s.length]]
         ELSE [s EXCEPT !.lps[s.i + 1] = 0, !.i = s.i + 1]

\* One iteration of the prefix-table loop; s = [lps, length, i].
KmpLpsStep(pattern, s) ==
    IF pattern[s.i + 1] = pattern[s.length + 1]
    THEN [lps |-> [s.lps EXCEPT ![s.i + 1] = s.length + 1],
          length |-> s.length + 1,
          i |-> s.i + 1]
    ELSE IF s.length # 0
         THEN [s EXCEPT !.length = s.lps[s.length]]
         ELSE [s EXCEPT !.lps[s.i + 1] = 0, !.i = s.i + 1]

RECURSIVE KmpLpsLoop(_, _)
KmpLpsLoop(pattern, s) ==
    IF s.i < Len(pattern) THEN KmpLpsLoop(pattern, KmpLpsStep(pattern, s)) ELSE s

KmpLps(pattern) ==
    KmpLpsLoop(pattern, [lps |-> [k \in 1..Len(pattern) |-> 0], length |-> 0, i |-> 1]).lps

\* A faulty variant of KmpScanStep: after a full match the pattern restarts at 0.
KmpScanStepRestart(text, pattern, lps, s) ==
    LET a == IF pattern[s.j + 1] = text[s.i + 1]
             THEN [s EXCEPT !.i = @ + 1, !.j = @ + 1]
             ELSE s
    IN  IF a.j = Len(pattern)
        THEN [a EXCEPT !.matches = Append(@, a.i - a.j), !.j = 0]
        ELSE IF a.i < Len(text) /\ pattern[a.j + 1] # text[a.i + 1]
             THEN IF a.j # 0
                  THEN [a EXCEPT !.j = lps[a.j]]
                  ELSE [a EXCEPT !.i = @ + 1]
             ELSE a

\* A faulty variant of KmpScanStep: the end of the occurrence is recorded.
KmpScanStepEndOffset(text, pattern, lps, s) ==
    LET a == IF pattern[s.j + 1] = text[s.i + 1]
             THEN [s EXCEPT !.i = @ + 1, !.j = @ + 1]
             ELSE s
    IN  IF a.j = Len(pattern)
        THEN [a EXCEPT !.matches = Append(@, a.i), !.j = lps[a.j]]
        ELSE IF a.i < Len(text) /\ pattern[a.j + 1] # text[a.i + 1]
             THEN IF a.j # 0
                  THEN [a EXCEPT !.j = lps[a.j]]
                  ELSE [a EXCEPT !.i = @ + 1]
             ELSE a

\* A faulty variant of KmpScanStep: after a full match j keeps its value.
KmpScanStepNoReset(text, pattern, lps, s) ==
    LET a == IF pattern[s.j + 1] = text[s.i + 1]
             THEN [s EXCEPT !.i = @ + 1, !.j = @ + 1]
             ELSE s
    IN  IF a.j = Len(pattern)
        THEN [a EXCEPT !.matches = Append(@, a.i - a.j)]
        ELSE IF a.i < Len(text) /\ pattern[a.j + 1] # text[a.i + 1]
             THEN IF a.j # 0
                  THEN [a EXCEPT !.j = lps[a.j]]
                  ELSE [a EXCEPT !.i = @ + 1]
             ELSE a

\* A faulty variant of KmpScanStep: after a mismatch the scan goes back in the
\* text to the offset that follows the start of the failed attempt.
KmpScanStepBacktrack(text, pattern, lps, s) ==
    LET a == IF pattern[s.j + 1] = text[s.i + 1]
             THEN [s EXCEPT !.i = @ + 1, !.j = @ + 1]
             ELSE s
    IN  IF a.j = Len(pattern)
        THEN [a EXCEPT !.matches = Append(@, a.i - a.j), !.i = a.i - a.j + 1, !.j = 0]
        ELSE IF a.i < Len(text) /\ pattern[a.j + 1] # text[a.i + 1]
             THEN IF a.j # 0
                  THEN [a EXCEPT !.i = a.i - a.j + 1, !.j = 0]
                  ELSE [a EXCEPT !.i = @ + 1]
             ELSE a

\* One iteration of the scan loop; s = [i, j, matches].
KmpScanStep(text, pattern, lps, s) ==
    LET a == IF pattern[s.j + 1] = text[s.i + 1]
             THEN [s EXCEPT !.i = @ + 1, !.j = @ + 1]
             ELSE s
    IN  IF a.j = Len(pattern)
        THEN [a EXCEPT !.matches = Append(@, a.i - a.j), !.j = lps[a.j]]
        ELSE IF a.i < Len(text) /\ pattern[a.j + 1] # text[a.i + 1]
             THEN IF a.j # 0
                  THEN [a EXCEPT !.j = lps[a.j]]
                  ELSE [a EXCEPT !.i = @ + 1]
             ELSE a

RECURSIVE KmpScanLoop(_, _, _, _)
KmpScanLoop(text, pattern, lps, s) ==
    IF s.i < Len(text)
    THEN KmpScanLoop(text, pattern, lps, KmpScanStep(text, pattern, lps, s))
    ELSE s

\* A faulty variant of kmp_search: matches is kept on the object and is not
\* emptied between two searches.
kmp_searchAccumulating(text, pattern) ==
    LET kept == IF call.op = "kmp_search" THEN result.value ELSE <<>>
    IN  IF pattern = <<>> \/ text = <<>>
        THEN <<>>
        ELSE KmpScanLoop(text, pattern, KmpLps(pattern),
                         [i |-> 0, j |-> 0, matches |-> kept]).matches

\* A faulty variant of kmp_search: the empty pattern occurs at every offset.
kmp_searchEmptyEverywhere(text, pattern) ==
    IF pattern = <<>>
    THEN [k \in 1..Len(text) |-> k - 1]
    ELSE KmpScanLoop(text, pattern, KmpLps(pattern),
                     [i |-> 0, j |-> 0, matches |-> <<>>]).matches

kmp_search(text, pattern) ==
    IF pattern = <<>> \/ text = <<>>
    THEN <<>>
    ELSE KmpScanLoop(text, pattern, KmpLps(pattern),
                     [i |-> 0, j |-> 0, matches |-> <<>>]).matches

-----------------------------------------------------------------------------
(* AdvancedPatternMatcher.fuzzy_regex_search                               *)

\* A faulty variant of ZipMismatches: the equal positions are counted.
ZipMatches(snippet, pattern) ==
    LET n == IF Len(snippet) < Len(pattern) THEN Len(snippet) ELSE Len(pattern)
    IN  Cardinality({k \in 1..n : snippet[k] = pattern[k]})

\* sum(c1 != c2 for c1, c2 in zip(snippet, pattern))
ZipMismatches(snippet, pattern) ==
    LET n == IF Len(snippet) < Len(pattern) THEN Len(snippet) ELSE Len(pattern)
    IN  Cardinality({k \in 1..n : snippet[k] # pattern[k]})

MatchResult(start_pos, end_pos, score, pattern_type, explanation) ==
    [start_pos |-> start_pos, end_pos |-> end_pos, score |-> score,
     pattern_type |-> pattern_type, explanation |-> explanation]

\* A faulty variant of FuzzyLoop: the window range stops one start short.
RECURSIVE FuzzyLoopShort(_, _, _, _, _)
FuzzyLoopShort(text, pattern, max_distance, i, results) ==
    IF i >= Len(text) - Len(pattern)
    THEN results
    ELSE LET snippet == Slice(text, i, i + Len(pattern))
             distance == ZipMismatches(snippet, pattern)
         IN  IF distance <= max_distance
             THEN FuzzyLoopShort(text, pattern, max_distance, i + 1,
                      Append(results,
                          MatchResult(i, i + Len(pattern), distance, "fuzzy_regex",
                                      <<distance, " mismatches">>)))
             ELSE FuzzyLoopShort(text, pattern, max_distance, i + 1, results)

\* for i in range(len(text) - len(pattern) + 1): ...
RECURSIVE FuzzyLoop(_, _, _, _, _)
FuzzyLoop(text, pattern, max_distance, i, results) ==
    IF i >= Len(text) - Len(pattern) + 1
    THEN results
    ELSE LET snippet == Slice(text, i, i + Len(pattern))
             distance == ZipMismatches(snippet, pattern)
         IN  IF distance <= max_distance
             THEN FuzzyLoop(text, pattern, max_distance, i + 1,
                      Append(results,
                          MatchResult(i, i + Len(pattern), distance, "fuzzy_regex",
                                      <<distance, " mismatches">>)))
             ELSE FuzzyLoop(text, pattern, max_distance, i + 1, results)

fuzzy_regex_search(text, pattern, max_distance) ==
    FuzzyLoop(text, pattern, max_distance, 0, <<>>)

-----------------------------------------------------------------------------
(* functools.lru_cache: entries [key, val], least recently used first.     *)

CacheMaxSize == 10000

CacheHas(cache, key) == \E k \in 1..Len(cache) : cache[k].key = key

CacheIndex(cache, key) == CHOOSE k \in 1..Len(cache) : cache[k].key = key

CacheGet(cache, key) == cache[CacheIndex(cache, key)].val

\* A hit moves the entry to the most recently used end.
CacheTouch(cache, key) ==
    LET k == CacheIndex(cache, key)
    IN  SubSeq(cache, 1, k - 1) \o SubSeq(cache, k + 1, Len(cache)) \o <<cache[k]>>

\* A miss stores the computed value, evicting the least recently used entry
\* of a full cache.
CachePut(cache, key, val) ==
    IF CacheHas(cache, key) THEN cache
    ELSE IF Len(cache) >= CacheMaxSize
         THEN Append(Tail(cache), [key |-> key, val |-> val])
         ELSE Append(cache, [key |-> key, val |-> val])

\* Count one evaluation of the body for the pair k.
CountEval(ev, k) ==
    IF k \in DOMAIN ev THEN [ev EXCEPT ![k] = @ + 1] ELSE (k :> 1) @@ ev

\* all(c == '*' for c in pattern[j:])
AllStars(pattern, j) == \A k \in (j + 1)..Len(pattern) : pattern[k] = "*"

-----------------------------------------------------------------------------
(* AdvancedPatternMatcher.wildcard_match, under @lru_cache(maxsize=10000). *)
(* m = [cache, calls, ev] is threaded through the recursion in the order   *)
(* Python evaluates it; the result adds val.                               *)

RECURSIVE WildcardMethod(_, _, _, _, _)
RECURSIVE WildcardMethodBody(_, _, _, _, _)

\* A faulty variant of WildcardMethodBody: for '*' only the zero-symbol
\* branch is tried.
WildcardMethodBodyNoConsume(text, pattern, m, i, j) ==
    LET m1 == [m EXCEPT !.calls = @ + 1, !.ev = CountEval(@, <<i, j>>)]
        ret(s, v) == [val |-> v, cache |-> s.cache, calls |-> s.calls, ev |-> s.ev]
    IN  IF i = Len(text) /\ j = Len(pattern) THEN ret(m1, TRUE)
        ELSE IF i = Len(text) THEN ret(m1, AllStars(pattern, j))
        ELSE IF j = Len(pattern) THEN ret(m1, FALSE)
        ELSE IF pattern[j + 1] = "*"
             THEN WildcardMethod(text, pattern, m1, i, j + 1)
             ELSE IF pattern[j + 1] = "?" \/ pattern[j + 1] = text[i + 1]
                  THEN WildcardMethod(text, pattern, m1, i + 1, j + 1)
                  ELSE ret(m1, FALSE)

\* A faulty variant of WildcardMethodBody: an exhausted pattern accepts
\* whatever text is left.
WildcardMethodBodyPrefix(text, pattern, m, i, j) ==
    LET m1 == [m EXCEPT !.calls = @ + 1, !.ev = CountEval(@, <<i, j>>)]
        ret(s, v) == [val |-> v, cache |-> s.cache, calls |-> s.calls, ev |-> s.ev]
    IN  IF i = Len(text) /\ j = Len(pattern) THEN ret(m1, TRUE)
        ELSE IF i = Len(text) THEN ret(m1, AllStars(pattern, j))
        ELSE IF j = Len(pattern) THEN ret(m1, TRUE)
        ELSE IF pattern[j + 1] = "*"
             THEN LET a == WildcardMethod(text, pattern, m1, i, j + 1)
                  IN  IF a.val THEN a
                      ELSE IF i < Len(text)
                           THEN WildcardMethod(text, pattern, a, i + 1, j)
                           ELSE ret(a, FALSE)
             ELSE IF pattern[j + 1] = "?" \/ pattern[j + 1] = text[i + 1]
                  THEN WildcardMethod(text, pattern, m1, i + 1, j + 1)
                  ELSE ret(m1, FALSE)

\* A faulty variant of WildcardMethodBody: once the call counter has reached
\* 3 the body gives up and answers false.
WildcardMethodBodyCounterLimit(text, pattern, m, i, j) ==
    IF m.calls >= 3
    THEN [val |-> FALSE, cache |-> m.cache, calls |-> m.calls + 1,
          ev |-> CountEval(m.ev, <<i, j>>)]
    ELSE
        LET m1 == [m EXCEPT !.calls = @ + 1, !.ev = CountEval(@, <<i, j>>)]
            ret(s, v) == [val |-> v, cache |-> s.cache, calls |-> s.calls, ev |-> s.ev]
        IN  IF i = Len(text) /\ j = Len(pattern) THEN ret(m1, TRUE)
            ELSE IF i = Len(text) THEN ret(m1, AllStars(pattern, j))
            ELSE IF j = Len(pattern) THEN ret(m1, FALSE)
            ELSE IF pattern[j + 1] = "*"
                 THEN LET a == WildcardMethod(text, pattern, m1, i, j + 1)
                      IN  IF a.val THEN a
                          ELSE IF i < Len(text)
                               THEN WildcardMethod(text, pattern, a, i + 1, j)
                               ELSE ret(a, FALSE)
                 ELSE IF pattern[j + 1] = "?" \/ pattern[j + 1] = text[i + 1]
                      THEN WildcardMethod(text, pattern, m1, i + 1, j + 1)
                      ELSE ret(m1, FALSE)

\* The decorated function's body.
WildcardMethodBody(text, pattern, m, i, j) ==
    LET m1 == [m EXCEPT !.calls = @ + 1, !.ev = CountEval(@, <<i, j>>)]
        ret(s, v) == [val |-> v, cache |-> s.cache, calls |-> s.calls, ev |-> s.ev]
    IN  IF i = Len(text) /\ j = Len(pattern) THEN ret(m1, TRUE)
        ELSE IF i = Len(text) THEN ret(m1, AllStars(pattern, j))
        ELSE IF j = Len(pattern) THEN ret(m1, FALSE)
        ELSE IF pattern[j + 1] = "*"
             THEN LET a == WildcardMethod(text, pattern, m1, i, j + 1)
                  IN  IF a.val THEN a
                      ELSE IF i < Len(text)
                           THEN WildcardMethod(text, pattern, a, i + 1, j)
                           ELSE ret(a, FALSE)
             ELSE IF pattern[j + 1] = "?" \/ pattern[j + 1] = text[i + 1]
                  THEN WildcardMethod(text, pattern, m1, i + 1, j + 1)
                  ELSE ret(m1, FALSE)

\* The lru_cache wrapper: the key is the whole argument tuple.
\* A faulty variant of WildcardMethod: a call served from the cache is counted
\* as well.
WildcardMethodCountsHits(text, pattern, m, i, j) ==
    LET key == <<text, pattern, i, j>>
    IN  IF CacheHas(m.cache, key)
        THEN [val |-> CacheGet(m.cache, key), cache |-> CacheTouch(m.cache, key),
              calls |-> m.calls + 1, ev |-> m.ev]
        ELSE LET r == WildcardMethodBody(text, pattern, m, i, j)
             IN  [r EXCEPT !.cache = CachePut(r.cache, key, r.val)]

\* A faulty variant of WildcardMethod: the cache is keyed by the positions only.
WildcardMethodPositionKey(text, pattern, m, i, j) ==
    LET key == <<i, j>>
    IN  IF CacheHas(m.cache, key)
        THEN [val |-> CacheGet(m.cache, key), cache |-> CacheTouch(m.cache, key),
              calls |-> m.calls, ev |-> m.ev]
        ELSE LET r == WildcardMethodBody(text, pattern, m, i, j)
             IN  [r EXCEPT !.cache = CachePut(r.cache, key, r.val)]

WildcardMethod(text, pattern, m, i, j) ==
    LET key == <<text, pattern, i, j>>
    IN  IF CacheHas(m.cache, key)
        THEN [val |-> CacheGet(m.cache, key), cache |-> CacheTouch(m.cache, key),
              calls |-> m.calls, ev |-> m.ev]
        ELSE LET r == WildcardMethodBody(text, pattern, m, i, j)
             IN  [r EXCEPT !.cache = CachePut(r.cache, key, r.val)]

-----------------------------------------------------------------------------
(* AdvancedPatternMatcher.motif_distance, under @lru_cache(maxsize=10000). *)

RECURSIVE MotifMethod(_, _, _, _, _)
RECURSIVE MotifMethodBody(_, _, _, _, _)

\* A faulty variant of MotifMethodBody: the equal positions are the ones
\* counted as mismatches.
MotifMethodBodyCountEqual(dna, motif, m, i, j) ==
    LET m1 == [m EXCEPT !.ev = CountEval(@, <<i, j>>)]
        ret(s, v) == [val |-> v, cache |-> s.cache, calls |-> s.calls, ev |-> s.ev]
    IN  IF j = Len(motif) THEN ret(m1, 0)
        ELSE IF i + Len(motif) - j > Len(dna) THEN ret(m1, Inf)
        ELSE LET mismatch == IF dna[i + 1] = motif[j + 1] THEN 1 ELSE 0
                 a == MotifMethod(dna, motif, m1, i + 1, j + 1)
                 b == MotifMethod(dna, motif, a, i + 1, j)
             IN  ret(b, MinInf(AddInf(mismatch, a.val), b.val))

MotifMethodBody(dna, motif, m, i, j) ==
    LET m1 == [m EXCEPT !.ev = CountEval(@, <<i, j>>)]
        ret(s, v) == [val |-> v, cache |-> s.cache, calls |-> s.calls, ev |-> s.ev]
    IN  IF j = Len(motif) THEN ret(m1, 0)
        ELSE IF i + Len(motif) - j > Len(dna) THEN ret(m1, Inf)
        ELSE LET mismatch == IF dna[i + 1] = motif[j + 1] THEN 0 ELSE 1
                 a == MotifMethod(dna, motif, m1, i + 1, j + 1)
                 b == MotifMethod(dna, motif, a, i + 1, j)
             IN  ret(b, MinInf(AddInf(mismatch, a.val), b.val))

MotifMethod(dna, motif, m, i, j) ==
    LET key == <<dna, motif, i, j>>
    IN  IF CacheHas(m.cache, key)
        THEN [val |-> CacheGet(m.cache, key), cache |-> CacheTouch(m.cache, key),
              calls |-> m.calls, ev |-> m.ev]
        ELSE LET r == MotifMethodBody(dna, motif, m, i, j)
             IN  [r EXCEPT !.cache = CachePut(r.cache, key, r.val)]

-----------------------------------------------------------------------------
(* The standalone wildcard_match(text, pattern): dfs over a memo dict.     *)
(* s = [memo, ev]; the result adds val.                                    *)

RECURSIVE dfs(_, _, _, _, _)

\* A faulty variant of dfs: an exhausted pattern accepts whatever text is left.
RECURSIVE dfsPrefix(_, _, _, _, _)
dfsPrefix(text, pattern, s, i, j) ==
    IF <<i, j>> \in DOMAIN s.memo
    THEN [val |-> s.memo[<<i, j>>], memo |-> s.memo, ev |-> s.ev]
    ELSE LET s1 == [s EXCEPT !.ev = CountEval(@, <<i, j>>)]
             ret(t, v) == [val |-> v, memo |-> t.memo, ev |-> t.ev]
             store(t, v) == [val |-> v, memo |-> (<<i, j>> :> v) @@ t.memo, ev |-> t.ev]
         IN  IF i = Len(text) /\ j = Len(pattern) THEN ret(s1, TRUE)
             ELSE IF i = Len(text) THEN ret(s1, AllStars(pattern, j))
             ELSE IF j = Len(pattern) THEN ret(s1, TRUE)
             ELSE IF pattern[j + 1] = "*"
                  THEN LET a == dfsPrefix(text, pattern, s1, i, j + 1)
                       IN  IF a.val THEN store(a, TRUE)
                           ELSE IF i < Len(text)
                                THEN LET b == dfsPrefix(text, pattern, a, i + 1, j)
                                     IN  store(b, b.val)
                                ELSE store(a, FALSE)
                  ELSE IF pattern[j + 1] = "?" \/ pattern[j + 1] = text[i + 1]
                       THEN LET a == dfsPrefix(text, pattern, s1, i + 1, j + 1)
                            IN  store(a, a.val)
                       ELSE store(s1, FALSE)

dfs(text, pattern, s, i, j) ==
    IF <<i, j>> \in DOMAIN s.memo
    THEN [val |-> s.memo[<<i, j>>], memo |-> s.memo, ev |-> s.ev]
    ELSE LET s1 == [s EXCEPT !.ev = CountEval(@, <<i, j>>)]
             ret(t, v) == [val |-> v, memo |-> t.memo, ev |-> t.ev]
             store(t, v) == [val |-> v, memo |-> (<<i, j>> :> v) @@ t.memo, ev |-> t.ev]
         IN  IF i = Len(text) /\ j = Len(pattern) THEN ret(s1, TRUE)
             ELSE IF i = Len(text) THEN ret(s1, AllStars(pattern, j))
             ELSE IF j = Len(pattern) THEN ret(s1, FALSE)
             ELSE IF pattern[j + 1] = "*"
                  THEN LET a == dfs(text, pattern, s1, i, j + 1)
                       IN  IF a.val THEN store(a, TRUE)
                           ELSE IF i < Len(text)
                                THEN LET b == dfs(text, pattern, a, i + 1, j)
                                     IN  store(b, b.val)
                                ELSE store(a, FALSE)
                  ELSE IF pattern[j + 1] = "?" \/ pattern[j + 1] = text[i + 1]
                       THEN LET a == dfs(text, pattern, s1, i + 1, j + 1)
                            IN  store(a, a.val)
                       ELSE store(s1, FALSE)

\* memo = {}; return dfs(0, 0)
wildcard_match(text, pattern) == dfs(text, pattern, [memo |-> <<>>, ev |-> <<>>], 0, 0)

-----------------------------------------------------------------------------
(* The standalone find_dna_motifs(dna, motif, max_mismatches).             *)
(* min_mismatches is under @lru_cache(maxsize=None): s = [memo, ev].       *)

\* A faulty variant of Best: the skip branch is ignored, which leaves the
\* alignment of the motif to the window that starts at i.
BestNoSkip(match_here, skip_dna) == match_here

\* return min(match_here, skip_dna)
Best(match_here, skip_dna) == MinInf(match_here, skip_dna)

RECURSIVE min_mismatches(_, _, _, _, _)
min_mismatches(dna, motif, s, i, j) ==
    IF <<i, j>> \in DOMAIN s.memo
    THEN [val |-> s.memo[<<i, j>>], memo |-> s.memo, ev |-> s.ev]
    ELSE LET s1 == [s EXCEPT !.ev = CountEval(@, <<i, j>>)]
             store(t, v) == [val |-> v, memo |-> (<<i, j>> :> v) @@ t.memo, ev |-> t.ev]
         IN  IF j = Len(motif) THEN store(s1, 0)
             ELSE IF i + Len(motif) - j > Len(dna) THEN store(s1, Inf)
             ELSE LET mismatch == IF dna[i + 1] = motif[j + 1] THEN 0 ELSE 1
                      a == min_mismatches(dna, motif, s1, i + 1, j + 1)
                      match_here == AddInf(mismatch, a.val)
                      b == min_mismatches(dna, motif, a, i + 1, j)
                      skip_dna == b.val
                  IN  store(b, Best(match_here, skip_dna))

\* A faulty variant of FindDnaLoop: the budget test is strict.
RECURSIVE FindDnaLoopStrict(_, _, _, _, _)
FindDnaLoopStrict(dna, motif, max_mismatches, start, acc) ==
    IF start >= Len(dna) - Len(motif) + 1
    THEN acc
    ELSE LET r == min_mismatches(dna, motif, [memo |-> acc.memo, ev |-> acc.ev], start, 0)
         IN  IF r.val # Inf /\ r.val < max_mismatches
             THEN FindDnaLoopStrict(dna, motif, max_mismatches, start + 1,
                      [results |-> Append(acc.results, <<start, r.val>>),
                       memo |-> r.memo, ev |-> r.ev])
             ELSE FindDnaLoopStrict(dna, motif, max_mismatches, start + 1,
                      [results |-> acc.results, memo |-> r.memo, ev |-> r.ev])

\* for start in range(n - m + 1): ...; acc = [results, memo, ev]
RECURSIVE FindDnaLoop(_, _, _, _, _)
FindDnaLoop(dna, motif, max_mismatches, start, acc) ==
    IF start >= Len(dna) - Len(motif) + 1
    THEN acc
    ELSE LET r == min_mismatches(dna, motif, [memo |-> acc.memo, ev |-> acc.ev], start, 0)
         IN  IF LeqInf(r.val, max_mismatches)
             THEN FindDnaLoop(dna, motif, max_mismatches, start + 1,
                      [results |-> Append(acc.results, <<start, r.val>>),
                       memo |-> r.memo, ev |-> r.ev])
             ELSE FindDnaLoop(dna, motif, max_mismatches, start + 1,
                      [results |-> acc.results, memo |-> r.memo, ev |-> r.ev])

find_dna_motifs(dna, motif, max_mismatches) ==
    FindDnaLoop(dna, motif, max_mismatches, 0,
                [results |-> <<>>, memo |-> <<>>, ev |-> <<>>])

-----------------------------------------------------------------------------
(* AdvancedPatternMatcher.analyze_all                                      *)

FuzzyDefaultMaxDistance == 2

\* for pattern in patterns: for start in range(len(text)): ...
\* acc = [results, cache, calls]
RECURSIVE AnalyzeWildcardLoop(_, _, _, _, _)
AnalyzeWildcardLoop(text, patterns, p, start, acc) ==
    IF p > Len(patterns) THEN acc
    ELSE IF start >= Len(text)
         THEN AnalyzeWildcardLoop(text, patterns, p + 1, 0, acc)
         ELSE LET r == WildcardMethod(text, patterns[p],
                           [cache |-> acc.cache, calls |-> acc.calls, ev |-> <<>>],
                           start, 0)
              IN  IF r.val
                  THEN AnalyzeWildcardLoop(text, patterns, p, start + 1,
                           [results |-> Append(acc.results,
                                            <<start, <<Slice(text, start, start + 10), "...">> >>),
                            cache |-> r.cache, calls |-> r.calls])
                  ELSE AnalyzeWildcardLoop(text, patterns, p, start + 1,
                           [results |-> acc.results, cache |-> r.cache, calls |-> r.calls])

\* for pattern in patterns: for start in range(len(text) - len(pattern) + 1): ...
RECURSIVE AnalyzeMotifLoop(_, _, _, _, _, _)
AnalyzeMotifLoop(text, patterns, max_motif_dist, p, start, acc) ==
    IF p > Len(patterns) THEN acc
    ELSE IF start >= Len(text) - Len(patterns[p]) + 1
         THEN AnalyzeMotifLoop(text, patterns, max_motif_dist, p + 1, 0, acc)
         ELSE LET r == MotifMethod(text, patterns[p],
                           [cache |-> acc.cache, calls |-> acc.calls, ev |-> <<>>],
                           start, 0)
              IN  IF LeqInf(r.val, max_motif_dist)
                  THEN AnalyzeMotifLoop(text, patterns, max_motif_dist, p, start + 1,
                           [results |-> Append(acc.results, <<start, r.val>>),
                            cache |-> r.cache, calls |-> r.calls])
                  ELSE AnalyzeMotifLoop(text, patterns, max_motif_dist, p, start + 1,
                           [results |-> acc.results, cache |-> r.cache, calls |-> r.calls])

\* A faulty variant of FuzzyPattern: the last pattern of the list is taken.
FuzzyPatternLast(patterns) == patterns[Len(patterns)]

\* self.fuzzy_regex_search(text, patterns[0])
FuzzyPattern(patterns) == patterns[1]

\* The report, or the IndexError of patterns[0] on an empty list; the caches
\* and the counter keep what the loops before it did.
analyze_all(text, patterns, max_motif_dist, wc, mc, calls) ==
    LET w == AnalyzeWildcardLoop(text, patterns, 1, 0,
                 [results |-> <<>>, cache |-> wc, calls |-> calls])
        m == AnalyzeMotifLoop(text, patterns, max_motif_dist, 1, 0,
                 [results |-> <<>>, cache |-> mc, calls |-> w.calls])
        kmp == [q \in Range(patterns) |-> kmp_search(text, q)]
    IN  [status |-> IF patterns = <<>> THEN "IndexError" ELSE "ok",
         value |-> IF patterns = <<>> THEN <<>>
                   ELSE [wildcard |-> w.results,
                         motifs |-> m.results,
                         kmp |-> kmp,
                         fuzzy_regex |-> fuzzy_regex_search(text, FuzzyPattern(patterns),
                                                           FuzzyDefaultMaxDistance)],
         wcache |-> w.cache, mcache |-> m.cache, calls |-> m.calls]

-----------------------------------------------------------------------------
(* The caller: a fresh matcher object, then calls on it.                   *)

NoCall ==
    [op |-> "none", text |-> <<>>, pattern |-> <<>>, i |-> 0, j |-> 0, k |-> 0,
     patterns |-> <<>>]

NoResult == [status |-> "none", value |-> <<>>]

NoRecord == [call |-> NoCall, result |-> NoResult, at |-> 0]

NoPool == [pc |-> "none"]

NoRun == [pc |-> "none"]

NoGame == [pc |-> "none"]

ACall(op, text, pattern, i, j, k, patterns) ==
    [op |-> op, text |-> text, pattern |-> pattern, i |-> i, j |-> j, k |-> k,
     patterns |-> patterns]

Ok(v) == [status |-> "ok", value |-> v]

\* __init__, and the module-level state of a fresh process.
InitMatcher ==
    /\ stats = [calls |-> 0, cache_hits |-> 0, total_time |-> 0]
    /\ wcache = <<>>
    /\ mcache = <<>>
    /\ call = NoCall
    /\ result = NoResult
    /\ evals = <<>>
    /\ recorded = NoRecord
    /\ ncalls = 0

WildScenario == <<WildScenarioText, WildScenarioPattern>>
DnaScenario == <<DnaScenarioText, DnaScenarioMotif>>
KmpScenario == <<KmpScenarioText, KmpScenarioPattern>>
WildRepeat == <<WildRepeatText, WildRepeatPattern>>

Inputs == IF session THEN SessionOne ELSE WideInputs

\* The inputs of a function: the bounded ones and the function's scenario.
InputsWith(scenario) == IF session THEN SessionOne ELSE WideInputs \cup {scenario}

\* The inputs of the two cached methods, and the text positions they are
\* called at; the pattern position is 0, as in analyze_all.
WildcardInputs ==
    IF session THEN SessionInputs ELSE WideInputs \cup {WildScenario, WildRepeat}

\* The inputs of the standalone wildcard_match.
WildcardFunctionInputs ==
    IF session THEN SessionOne ELSE WideInputs \cup {WildScenario, WildRepeat}

MotifInputs == IF session THEN SessionInputs ELSE DnaInputs

FindDnaInputs == IF session THEN SessionOne ELSE DnaInputs

\* for start in range(len(text)): the starts analyze_all and the demo pass
\* to wildcard_match.
TextOffsets(text) == 0..(Len(text) - 1)

\* for start in range(len(text) - len(pattern) + 1): the starts analyze_all
\* and the demo pass to motif_distance.
MotifOffsets(text, pattern) == 0..(Len(text) - Len(pattern))


CallBudgets == IF session THEN {SessionBudget} ELSE Budgets


AnalyzeTexts == IF session THEN {SessionText} ELSE Strings(TextAlphabet, MaxTextLen)

AnalyzeLists == IF session THEN SessionLists ELSE PatternLists(AnalyzePatterns)

CanCall == pool.pc = "none" /\ ncalls < (IF session THEN MaxCalls ELSE 1)

\* The caller may keep one call and its result to compare a later one with.
Made(c, r) ==
    /\ call' = c
    /\ result' = r
    /\ ncalls' = ncalls + 1
    /\ recorded' \in IF session /\ recorded = NoRecord
                     THEN {recorded, [call |-> c, result |-> r, at |-> ncalls + 1]}
                     ELSE {recorded}
    /\ UNCHANGED <<session, pool, dnarun, kmprun, game>>

CallWildcardMethod(text, pattern, i, j) ==
    /\ CanCall
    /\ LET r == WildcardMethod(text, pattern,
                    [cache |-> wcache, calls |-> stats.calls, ev |-> <<>>], i, j)
       IN  /\ stats' = [stats EXCEPT !.calls = r.calls]
           /\ wcache' = r.cache
           /\ evals' = r.ev
           /\ Made(ACall("wildcard_match", text, pattern, i, j, 0, <<>>), Ok(r.val))
    /\ UNCHANGED mcache

CallMotifMethod(dna, motif, i, j) ==
    /\ CanCall
    /\ LET r == MotifMethod(dna, motif,
                    [cache |-> mcache, calls |-> stats.calls, ev |-> <<>>], i, j)
       IN  /\ mcache' = r.cache
           /\ evals' = r.ev
           /\ Made(ACall("motif_distance", dna, motif, i, j, 0, <<>>), Ok(r.val))
    /\ UNCHANGED <<stats, wcache>>

CallKmpSearch(text, pattern) ==
    /\ CanCall
    /\ evals' = <<>>
    /\ Made(ACall("kmp_search", text, pattern, 0, 0, 0, <<>>), Ok(kmp_search(text, pattern)))
    /\ UNCHANGED <<stats, wcache, mcache>>

CallFuzzyRegexSearch(text, pattern, max_distance) ==
    /\ CanCall
    /\ evals' = <<>>
    /\ Made(ACall("fuzzy_regex_search", text, pattern, 0, 0, max_distance, <<>>),
            Ok(fuzzy_regex_search(text, pattern, max_distance)))
    /\ UNCHANGED <<stats, wcache, mcache>>

CallAnalyzeAll(text, patterns, max_motif_dist) ==
    /\ CanCall
    /\ LET r == analyze_all(text, patterns, max_motif_dist, wcache, mcache, stats.calls)
       IN  /\ stats' = [stats EXCEPT !.calls = r.calls]
           /\ wcache' = r.wcache
           /\ mcache' = r.mcache
           /\ evals' = <<>>
           /\ Made(ACall("analyze_all", text, <<>>, 0, 0, max_motif_dist, patterns),
                   [status |-> r.status, value |-> r.value])

CallWildcardFunction(text, pattern) ==
    /\ CanCall
    /\ LET r == wildcard_match(text, pattern)
       IN  /\ evals' = r.ev
           /\ Made(ACall("wildcard_match_fn", text, pattern, 0, 0, 0, <<>>), Ok(r.val))
    /\ UNCHANGED <<stats, wcache, mcache>>

CallFindDnaMotifs(dna, motif, max_mismatches) ==
    /\ CanCall
    /\ LET r == find_dna_motifs(dna, motif, max_mismatches)
       IN  /\ evals' = r.ev
           /\ Made(ACall("find_dna_motifs", dna, motif, 0, 0, max_mismatches, <<>>),
                   Ok(r.results))
    /\ UNCHANGED <<stats, wcache, mcache>>

\* The caller's next call; nothing more once it has made its calls.
NextMatcher ==
    \/ CanCall /\ \E tp \in WildcardInputs : \E i \in TextOffsets(tp[1]) :
           CallWildcardMethod(tp[1], tp[2], i, 0)
    \/ CanCall /\ \E tp \in MotifInputs : \E i \in MotifOffsets(tp[1], tp[2]) :
           CallMotifMethod(tp[1], tp[2], i, 0)
    \/ CanCall /\ \E tp \in InputsWith(KmpScenario) : CallKmpSearch(tp[1], tp[2])
    \/ CanCall /\ \E tp \in Inputs : \E d \in CallBudgets :
           CallFuzzyRegexSearch(tp[1], tp[2], d)
    \/ CanCall /\ \E t \in AnalyzeTexts : \E ps \in AnalyzeLists : \E k \in CallBudgets :
           CallAnalyzeAll(t, ps, k)
    \/ CanCall /\ \E tp \in WildcardFunctionInputs : CallWildcardFunction(tp[1], tp[2])
    \/ CanCall /\ \E tp \in FindDnaInputs : \E k \in CallBudgets :
           CallFindDnaMotifs(tp[1], tp[2], k)

\* One call of any matcher on a fresh matcher object.
InitFn == InitMatcher /\ session = FALSE /\ pool = NoPool /\ dnarun = NoRun /\ kmprun = NoRun /\ game = NoGame

SpecFn == InitFn /\ [][NextMatcher]_vars

\* Several calls in a row on one matcher object.
InitSession == InitMatcher /\ session = TRUE /\ pool = NoPool /\ dnarun = NoRun /\ kmprun = NoRun /\ game = NoGame

SpecSession == InitSession /\ [][NextMatcher]_vars

\* A matcher whose two caches are full: analyze_all(text, [""]) has returned
\* for FullTexts different texts of FullTextLen characters, text n spelling n
\* in the digits of FullAlphabet.  Each report stores wildcard_match(text, "", start, 0) for the
\* starts 0 .. FullTextLen - 1 (one evaluation of the body each, value false)
\* and motif_distance(text, "", start, 0) for the starts 0 .. FullTextLen
\* (value 0); the caches keep the last CacheMaxSize stores, least recently
\* used first.
FullTextLen == 4

FullAlphabet == <<"a", "b", "c", "d", "e", "f", "g", "h">>

FullTexts == CacheMaxSize \div FullTextLen

FullText(n) ==
    [d \in 1..FullTextLen |->
        FullAlphabet[((n \div Len(FullAlphabet)^(d - 1)) % Len(FullAlphabet)) + 1]]

FullWildcardCache ==
    [e \in 1..CacheMaxSize |->
        [key |-> << FullText((e - 1) \div FullTextLen), <<>>, (e - 1) % FullTextLen, 0 >>,
         val |-> FALSE]]

FullMotifCache ==
    [e \in 1..CacheMaxSize |->
        LET store == e + FullTexts * (FullTextLen + 1) - CacheMaxSize
        IN  [key |-> << FullText((store - 1) \div (FullTextLen + 1)), <<>>,
                        (store - 1) % (FullTextLen + 1), 0 >>,
             val |-> 0]]

\* The calls that remain to a session on the full matcher.
FullCalls == 2

InitFull ==
    /\ stats = [calls |-> CacheMaxSize, cache_hits |-> 0, total_time |-> 0]
    /\ wcache = FullWildcardCache
    /\ mcache = FullMotifCache
    /\ call = NoCall
    /\ result = NoResult
    /\ evals = <<>>
    /\ recorded = NoRecord
    /\ ncalls = MaxCalls - FullCalls
    /\ session = TRUE
    /\ pool = NoPool
    /\ dnarun = NoRun /\ kmprun = NoRun /\ game = NoGame

\* The queries of the two cached methods.
NextFull ==
    \/ CanCall /\ \E tp \in WildcardInputs : \E i \in TextOffsets(tp[1]) :
           CallWildcardMethod(tp[1], tp[2], i, 0)
    \/ CanCall /\ \E tp \in MotifInputs : \E i \in MotifOffsets(tp[1], tp[2]) :
           CallMotifMethod(tp[1], tp[2], i, 0)

\* The last queries of a long session, every store evicting an older entry.
SpecFull == InitFull /\ [][NextFull]_vars

-----------------------------------------------------------------------------
(* find_dna_motifs step by step: the scan loop and the recursion of        *)
(* min_mismatches with Python's call stack made explicit.  A frame is      *)
(* [i, j, at, mismatch, match_here]; at is the place the frame waits at.   *)

DnaRunInputs == {DnaScenario} \cup DnaInputs

Frame(i, j) == [i |-> i, j |-> j, at |-> "enter", mismatch |-> 0, match_here |-> 0]

Top(stack) == stack[Len(stack)]

Pop(stack) == SubSeq(stack, 1, Len(stack) - 1)

ReplaceTop(stack, f) == [stack EXCEPT ![Len(stack)] = f]

\* The call find_dna_motifs(dna, motif, max_mismatches): n, m, results = [].
DnaBegin(dna, motif, max_mismatches) ==
    /\ dnarun.pc = "idle"
    /\ dnarun' = [pc |-> "loop", dna |-> dna, motif |-> motif,
                  max_mismatches |-> max_mismatches, start |-> 0, stack |-> <<>>,
                  memo |-> <<>>, ev |-> <<>>, ret |-> 0, results |-> <<>>]
    /\ UNCHANGED <<matcherVars, pool, kmprun, game>>

\* for start in range(n - m + 1): mismatches = min_mismatches(start, 0)
DnaLoop ==
    /\ dnarun.pc = "loop"
    /\ \/ /\ dnarun.start < Len(dnarun.dna) - Len(dnarun.motif) + 1
          /\ dnarun' = [dnarun EXCEPT !.pc = "call", !.stack = <<Frame(dnarun.start, 0)>>]
       \/ /\ dnarun.start >= Len(dnarun.dna) - Len(dnarun.motif) + 1
          /\ dnarun' = [dnarun EXCEPT !.pc = "done"]
    /\ UNCHANGED <<matcherVars, pool, kmprun, game>>

\* A call of min_mismatches(i, j) arrives: the lru_cache lookup, the base
\* cases, or the first recursive call.
DnaEnter ==
    /\ dnarun.pc = "call"
    /\ LET f == Top(dnarun.stack)
           k == <<f.i, f.j>>
           counted == CountEval(dnarun.ev, k)
       IN  \/ /\ k \in DOMAIN dnarun.memo
              /\ dnarun' = [dnarun EXCEPT !.pc = "return", !.ret = dnarun.memo[k],
                                          !.stack = Pop(@)]
           \/ /\ k \notin DOMAIN dnarun.memo
              /\ f.j = Len(dnarun.motif)
              /\ dnarun' = [dnarun EXCEPT !.pc = "return", !.ret = 0, !.ev = counted,
                                          !.memo = (k :> 0) @@ @, !.stack = Pop(@)]
           \/ /\ k \notin DOMAIN dnarun.memo
              /\ f.j # Len(dnarun.motif)
              /\ f.i + Len(dnarun.motif) - f.j > Len(dnarun.dna)
              /\ dnarun' = [dnarun EXCEPT !.pc = "return", !.ret = Inf, !.ev = counted,
                                          !.memo = (k :> Inf) @@ @, !.stack = Pop(@)]
           \/ /\ k \notin DOMAIN dnarun.memo
              /\ f.j # Len(dnarun.motif)
              /\ f.i + Len(dnarun.motif) - f.j <= Len(dnarun.dna)
              /\ dnarun' =
                    [dnarun EXCEPT
                        !.ev = counted,
                        !.stack = Append(
                            ReplaceTop(@, [f EXCEPT
                                !.at = "match",
                                !.mismatch = IF dnarun.dna[f.i + 1] = dnarun.motif[f.j + 1]
                                             THEN 0 ELSE 1]),
                            Frame(f.i + 1, f.j + 1))]
    /\ UNCHANGED <<matcherVars, pool, kmprun, game>>

\* A call of min_mismatches returns to the frame below it, or to the loop.
DnaReturn ==
    /\ dnarun.pc = "return"
    /\ \/ /\ dnarun.stack = <<>>
          /\ dnarun' = [dnarun EXCEPT
                            !.pc = "loop",
                            !.start = @ + 1,
                            !.results = IF LeqInf(dnarun.ret, dnarun.max_mismatches)
                                        THEN Append(@, <<dnarun.start, dnarun.ret>>)
                                        ELSE @]
       \/ /\ dnarun.stack # <<>>
          /\ Top(dnarun.stack).at = "match"
          /\ LET f == Top(dnarun.stack)
             IN  dnarun' = [dnarun EXCEPT
                               !.pc = "call",
                               !.stack = Append(
                                   ReplaceTop(@, [f EXCEPT
                                       !.at = "skip",
                                       !.match_here = AddInf(f.mismatch, dnarun.ret)]),
                                   Frame(f.i + 1, f.j))]
       \/ /\ dnarun.stack # <<>>
          /\ Top(dnarun.stack).at = "skip"
          /\ LET f == Top(dnarun.stack)
                 v == Best(f.match_here, dnarun.ret)
             IN  dnarun' = [dnarun EXCEPT
                               !.ret = v,
                               !.memo = (<<f.i, f.j>> :> v) @@ @,
                               !.stack = Pop(@)]
    /\ UNCHANGED <<matcherVars, pool, kmprun, game>>

NextDna ==
    \/ \E tp \in DnaRunInputs : \E k \in Budgets : DnaBegin(tp[1], tp[2], k)
    \/ DnaLoop
    \/ DnaEnter
    \/ DnaReturn

InitDna ==
    /\ InitMatcher /\ session = FALSE /\ pool = NoPool /\ dnarun = [pc |-> "idle"]
    /\ kmprun = NoRun /\ game = NoGame

SpecDna == InitDna /\ [][NextDna]_vars

-----------------------------------------------------------------------------
(* kmp_search one loop iteration at a time: the prefix-table loop, then    *)
(* the scan loop.                                                          *)

KmpRunInputs == DnaInputs \cup {KmpScenario}

\* if not pattern or not text: return []
\* lps = [0] * len(pattern); length = 0; i = 1
KmpBegin(text, pattern) ==
    /\ kmprun.pc = "idle"
    /\ kmprun' = [pc |-> IF pattern = <<>> \/ text = <<>> THEN "done" ELSE "lps",
                  text |-> text, pattern |-> pattern,
                  lps |-> [k \in 1..Len(pattern) |-> 0], length |-> 0,
                  i |-> 1, j |-> 0, matches |-> <<>>]
    /\ UNCHANGED <<matcherVars, pool, dnarun, game>>

\* while i < len(pattern): ...; then matches = [], i = 0, j = 0
KmpLpsIter ==
    /\ kmprun.pc = "lps"
    /\ IF kmprun.i < Len(kmprun.pattern)
       THEN LET s == KmpLpsStep(kmprun.pattern,
                         [lps |-> kmprun.lps, length |-> kmprun.length, i |-> kmprun.i])
            IN  kmprun' = [kmprun EXCEPT !.lps = s.lps, !.length = s.length, !.i = s.i]
       ELSE kmprun' = [kmprun EXCEPT !.pc = "scan", !.i = 0, !.j = 0, !.matches = <<>>]
    /\ UNCHANGED <<matcherVars, pool, dnarun, game>>

\* while i < len(text): ...; then return matches
KmpScanIter ==
    /\ kmprun.pc = "scan"
    /\ IF kmprun.i < Len(kmprun.text)
       THEN LET s == KmpScanStep(kmprun.text, kmprun.pattern, kmprun.lps,
                         [i |-> kmprun.i, j |-> kmprun.j, matches |-> kmprun.matches])
            IN  kmprun' = [kmprun EXCEPT !.i = s.i, !.j = s.j, !.matches = s.matches]
       ELSE kmprun' = [kmprun EXCEPT !.pc = "done"]
    /\ UNCHANGED <<matcherVars, pool, dnarun, game>>

NextKmp ==
    \/ \E tp \in KmpRunInputs : KmpBegin(tp[1], tp[2])
    \/ KmpLpsIter
    \/ KmpScanIter

InitKmp ==
    /\ InitMatcher /\ session = FALSE /\ pool = NoPool /\ dnarun = NoRun
    /\ kmprun = [pc |-> "idle"] /\ game = NoGame

SpecKmp == InitKmp /\ [][NextKmp]_vars

\* A loop of a running call always goes on to its next iteration.
SpecKmpLive == SpecKmp /\ WF_vars(KmpLpsIter) /\ WF_vars(KmpScanIter)

-----------------------------------------------------------------------------
(* TicTacToe.py: the TicTacToe class and play_game.  The board is a        *)
(* sequence of nine cells; position p of the source is cell p + 1.         *)

Empty == " "

\* lines of check_winner, as cells.
WinLines ==
    << <<1, 2, 3>>, <<4, 5, 6>>, <<7, 8, 9>>, <<1, 4, 7>>, <<2, 5, 8>>, <<3, 6, 9>>,
       <<1, 5, 9>>, <<3, 5, 7>> >>

\* The first line in the order of the list that is filled by one player.
RECURSIVE FirstWinLine(_, _)
FirstWinLine(board, n) ==
    IF n > Len(WinLines) THEN 0
    ELSE LET l == WinLines[n]
         IN  IF board[l[1]] = board[l[2]] /\ board[l[2]] = board[l[3]] /\ board[l[3]] # Empty
             THEN n
             ELSE FirstWinLine(board, n + 1)

\* TicTacToe.check_winner: "X", "O", "Draw" or "None".
check_winner(board) ==
    LET n == FirstWinLine(board, 1)
    IN  IF n # 0 THEN board[WinLines[n][1]]
        ELSE IF \A c \in 1..9 : board[c] # Empty THEN "Draw" ELSE "None"

\* TicTacToe.available_moves, as a set of positions 0..8.
available_moves(board) == {p \in 0..8 : board[p + 1] = Empty}

Place(board, position, player) == [board EXCEPT ![position + 1] = player]

MaxOf(S) == CHOOSE x \in S : \A y \in S : y <= x

MinOf(S) == CHOOSE x \in S : \A y \in S : x <= y

\* A faulty variant of minimax: the player's reply is taken to be the one
\* that suits the AI best.
RECURSIVE minimaxOptimistic(_, _, _)
minimaxOptimistic(board, depth, is_maximizing) ==
    LET winner == check_winner(board)
    IN  IF winner = "O" THEN 10 - depth
        ELSE IF winner = "X" THEN depth - 10
        ELSE IF winner = "Draw" THEN 0
        ELSE IF is_maximizing
             THEN MaxOf({minimaxOptimistic(Place(board, move, "O"), depth + 1, FALSE) :
                            move \in available_moves(board)})
             ELSE MaxOf({minimaxOptimistic(Place(board, move, "X"), depth + 1, TRUE) :
                            move \in available_moves(board)})

\* TicTacToe.minimax on the board as it stands.
RECURSIVE minimax(_, _, _)
minimax(board, depth, is_maximizing) ==
    LET winner == check_winner(board)
    IN  IF winner = "O" THEN 10 - depth
        ELSE IF winner = "X" THEN depth - 10
        ELSE IF winner = "Draw" THEN 0
        ELSE IF is_maximizing
             THEN MaxOf({minimax(Place(board, move, "O"), depth + 1, FALSE) :
                            move \in available_moves(board)})
             ELSE MinOf({minimax(Place(board, move, "X"), depth + 1, TRUE) :
                            move \in available_moves(board)})

\* if aggressive > defensive: score += 1
StyleBonus(player_stats) ==
    IF player_stats.aggressive > player_stats.defensive THEN 1 ELSE 0

\* best_score = float('-inf'), best_move = None
NoBest == [none |-> TRUE, score |-> 0, move |-> 0]

\* if score > best_score: best_score = score; best_move = move
Better(best, score, move) ==
    IF best.none \/ score > best.score
    THEN [none |-> FALSE, score |-> score, move |-> move]
    ELSE best

\* The loop of get_ai_move over the available moves from position move on.
RECURSIVE AiMoveLoop(_, _, _, _)
AiMoveLoop(board, player_stats, move, best) ==
    IF move > 8 THEN best
    ELSE IF board[move + 1] # Empty \/ (~best.none /\ move = best.move)
         THEN AiMoveLoop(board, player_stats, move + 1, best)
         ELSE LET score == minimax(Place(board, move, "O"), 0, FALSE)
                           + StyleBonus(player_stats)
              IN  AiMoveLoop(board, player_stats, move + 1, Better(best, score, move))

\* TicTacToe.get_ai_move: the centre first, then the loop.
get_ai_move(board, player_stats) ==
    LET first == IF board[5] = Empty
                 THEN Better(NoBest, minimax(Place(board, 4, "O"), 0, FALSE), 4)
                 ELSE NoBest
    IN  AiMoveLoop(board, player_stats, 0, first)

\* TicTacToe.update_player_stats
update_player_stats(player_stats, move) ==
    IF move \in {0, 2, 6, 8} THEN [player_stats EXCEPT !.aggressive = @ + 1]
    ELSE IF move = 4 THEN [player_stats EXCEPT !.center_bias = @ + 1]
    ELSE [player_stats EXCEPT !.defensive = @ + 1]

\* game = TicTacToe(), at the first prompt of play_game.
NewGame ==
    [pc |-> "human", board |-> [c \in 1..9 |-> Empty], current_player |-> "X",
     player_stats |-> [aggressive |-> 0, defensive |-> 0, center_bias |-> 0],
     game_stats |-> [moves |-> 0, ai_wins |-> 0],
     announced |-> "", error |-> ""]

\* The player's turn: the move typed at the prompt.  An occupied cell is
\* refused and the prompt comes again.  After a legal move the result is
\* announced; the branch taken when the result is not 'X' evaluates
\* self.ai_player inside play_game, where no name self exists.
HumanMove(move) ==
    /\ game.pc = "human"
    /\ IF game.board[move + 1] # Empty
       THEN game' = game
       ELSE LET board == Place(game.board, move, "X")
                made == [game EXCEPT
                            !.board = board,
                            !.current_player = "O",
                            !.game_stats.moves = @ + 1,
                            !.player_stats = update_player_stats(@, move)]
                winner == check_winner(board)
            IN  game' = IF winner = "None" THEN [made EXCEPT !.pc = "ai"]
                        ELSE IF winner = "X"
                             THEN [made EXCEPT !.pc = "over", !.announced = "YOU WIN"]
                             ELSE [made EXCEPT !.pc = "raised", !.error = "NameError"]
    /\ UNCHANGED <<matcherVars, pool, dnarun, kmprun>>

\* The AI's turn: get_ai_move, make_move, and the check that ends the game.
AiMove ==
    /\ game.pc = "ai"
    /\ LET best == get_ai_move(game.board, game.player_stats)
           board == Place(game.board, best.move, "O")
           made == [game EXCEPT !.board = board,
                                !.current_player = "X",
                                !.game_stats.moves = @ + 1]
       IN  game' = IF check_winner(board) # "None"
                   THEN [made EXCEPT !.pc = "over", !.announced = "AI WINS",
                                     !.game_stats.ai_wins = @ + 1]
                   ELSE [made EXCEPT !.pc = "human"]
    /\ UNCHANGED <<matcherVars, pool, dnarun, kmprun>>

NextGame ==
    \/ \E move \in 0..8 : HumanMove(move)
    \/ AiMove

InitGame ==
    /\ InitMatcher /\ session = FALSE /\ pool = NoPool /\ dnarun = NoRun
    /\ kmprun = NoRun /\ game = NewGame

SpecGame == InitGame /\ [][NextGame]_vars

-----------------------------------------------------------------------------
(* parallel_search: Pool(n_workers).starmap(self.kmp_search, ...).  The    *)
(* pool cuts the argument list into chunks, each worker process takes the  *)
(* next chunk off the task queue, runs it and puts its result on the       *)
(* result queue; the result handler of the calling process takes the       *)
(* results off that queue one by one and stores the result of chunk c at   *)
(* the slots c*chunksize .. (c+1)*chunksize - 1 of the value list.         *)

PoolTexts == { <<>>, <<"a", "a">>, <<"a", "b">> }

PoolPatterns == { <<>>, <<"a">> }

CorpusLists == UNION {[1..k -> PoolTexts] : k \in 0..MaxCorpora}

NoValue == <<-1>>

Idle == -1

\* chunksize, extra = divmod(len(iterable), len(self._pool) * 4)
Chunksize(n, n_workers) ==
    IF n = 0 THEN 0
    ELSE (n \div (n_workers * 4)) + (IF n % (n_workers * 4) # 0 THEN 1 ELSE 0)

\* length // chunksize + bool(length % chunksize)
NumberOfChunks(n, chunksize) ==
    IF chunksize = 0 THEN 0
    ELSE (n \div chunksize) + (IF n % chunksize # 0 THEN 1 ELSE 0)

\* The corpora (1-based) of chunk c (0-based).
ChunkSlots(p, c) ==
    {k \in 1..Len(p.texts) : k - 1 >= c * p.chunksize /\ k - 1 < (c + 1) * p.chunksize}

\* A faulty variant of SetValue: the results of a chunk go to the first
\* free slots, in the order the chunks complete.
SetValueOnCompletion(p, c) ==
    LET done == Cardinality({k \in 1..Len(p.value) : p.value[k] # NoValue})
    IN  [k \in 1..Len(p.value) |->
            IF k > done /\ k <= done + Cardinality(ChunkSlots(p, c))
            THEN kmp_search(p.texts[c * p.chunksize + (k - done)], p.pattern)
            ELSE p.value[k]]

\* self._value[i*self._chunksize:(i+1)*self._chunksize] = result
SetValue(p, c) ==
    [k \in 1..Len(p.value) |->
        IF k \in ChunkSlots(p, c) THEN kmp_search(p.texts[k], p.pattern) ELSE p.value[k]]

\* The worker counts parallel_search is called with.
WorkerCounts == (0 - 1)..MaxWorkers

\* A faulty variant of PoolRejects: only a negative count is refused.
PoolRejectsNegative(n_workers) == n_workers < 0

\* Pool(n_workers): if processes < 1: raise ValueError("Number of processes
\* must be at least 1")
PoolRejects(n_workers) == n_workers < 1

\* The call raises out of Pool(n_workers), before starmap is reached.
PoolRaised(texts, pattern, n_workers) ==
    [pc |-> "raised", error |-> "ValueError", texts |-> texts, pattern |-> pattern,
     n_workers |-> n_workers, chunksize |-> 0, queue |-> <<>>, busy |-> <<>>,
     outqueue |-> <<>>, value |-> <<>>, number_left |-> 0, order |-> <<>>,
     runs |-> [k \in 1..Len(texts) |-> 0], ret |-> NoValue]

ParallelSearch(texts, pattern, n_workers) ==
    /\ pool.pc = "idle"
    /\ IF PoolRejects(n_workers)
       THEN pool' = PoolRaised(texts, pattern, n_workers)
       ELSE LET cs == Chunksize(Len(texts), n_workers)
                chunks == NumberOfChunks(Len(texts), cs)
            IN  pool' = [pc |-> "running", error |-> "", texts |-> texts,
                         pattern |-> pattern,
                         n_workers |-> n_workers, chunksize |-> cs,
                         queue |-> [c \in 1..chunks |-> c - 1],
                         busy |-> [w \in 1..n_workers |-> Idle],
                         outqueue |-> <<>>,
                         value |-> [k \in 1..Len(texts) |-> NoValue],
                         number_left |-> chunks,
                         order |-> <<>>,
                         runs |-> [k \in 1..Len(texts) |-> 0],
                         ret |-> NoValue]
    /\ UNCHANGED <<matcherVars, dnarun, kmprun, game>>

\* A faulty variant of WorkerTake: the chunk is read but left on the queue.
WorkerTakeNoPop(w) ==
    /\ pool.pc = "running"
    /\ pool.busy[w] = Idle
    /\ pool.queue # <<>>
    /\ pool' = [pool EXCEPT !.busy[w] = Head(pool.queue)]
    /\ UNCHANGED <<matcherVars, dnarun, kmprun, game>>

\* A worker process takes the next chunk off the task queue.
WorkerTake(w) ==
    /\ pool.pc = "running"
    /\ pool.busy[w] = Idle
    /\ pool.queue # <<>>
    /\ pool' = [pool EXCEPT !.busy[w] = Head(pool.queue), !.queue = Tail(@)]
    /\ UNCHANGED <<matcherVars, dnarun, kmprun, game>>

\* A worker process has run kmp_search on its chunk and put the result on
\* the result queue; it is free for its next chunk, the result is not yet
\* stored.
WorkerFinish(w) ==
    /\ pool.pc = "running"
    /\ pool.busy[w] # Idle
    /\ LET c == pool.busy[w]
       IN  pool' = [pool EXCEPT
                        !.busy[w] = Idle,
                        !.outqueue = Append(@, c),
                        !.runs = [k \in 1..Len(pool.texts) |->
                                     IF k \in ChunkSlots(pool, c) THEN @[k] + 1 ELSE @[k]]]
    /\ UNCHANGED <<matcherVars, dnarun, kmprun, game>>

\* The result handler of the calling process takes the oldest result off the
\* result queue and stores it: the slots of its chunk are filled and one
\* chunk fewer is left.
HandleResult ==
    /\ pool.pc = "running"
    /\ pool.outqueue # <<>>
    /\ LET c == Head(pool.outqueue)
       IN  pool' = [pool EXCEPT
                        !.outqueue = Tail(@),
                        !.value = SetValue(pool, c),
                        !.number_left = @ - 1,
                        !.order = Append(@, c)]
    /\ UNCHANGED <<matcherVars, dnarun, kmprun, game>>

\* starmap returns the value list once no chunk is left.
PoolReturn ==
    /\ pool.pc = "running"
    /\ pool.number_left = 0
    /\ pool' = [pool EXCEPT !.pc = "done", !.ret = pool.value]
    /\ UNCHANGED <<matcherVars, dnarun, kmprun, game>>

NextPool ==
    \/ \E texts \in CorpusLists : \E pattern \in PoolPatterns : \E n \in WorkerCounts :
           ParallelSearch(texts, pattern, n)
    \/ pool.pc = "running" /\ \E w \in 1..pool.n_workers : WorkerTake(w)
    \/ pool.pc = "running" /\ \E w \in 1..pool.n_workers : WorkerFinish(w)
    \/ HandleResult
    \/ PoolReturn

InitPool ==
    InitMatcher /\ session = FALSE /\ pool = [pc |-> "idle"] /\ dnarun = NoRun /\ kmprun = NoRun /\ game = NoGame

SpecPool == InitPool /\ [][NextPool]_vars

-----------------------------------------------------------------------------
(* What the matchers are specified to return, stated independently of the  *)
(* way the code computes it.                                               *)

RECURSIVE Ascending(_)
Ascending(S) ==
    IF S = {} THEN <<>>
    ELSE LET x == CHOOSE x \in S : \A y \in S : x <= y
         IN  <<x>> \o Ascending(S \ {x})

\* T[s : s+|P|] == P, with s a 0-based offset.
OccursAt(T, P, s) == s + Len(P) <= Len(T) /\ \A k \in 1..Len(P) : T[s + k] = P[k]

Occurrences(T, P) == {s \in 0..Len(T) : OccursAt(T, P, s)}

StartsOf(results) == [k \in 1..Len(results) |-> results[k].start_pos]

AllScoresZero(results) == \A k \in 1..Len(results) : results[k].score = 0

NoWildcards(P) == \A k \in 1..Len(P) : P[k] \notin {"*", "?"}

OnlyStars(P) == \A k \in 1..Len(P) : P[k] = "*"

\* A call of either wildcard matcher on the whole text.
WholeTextWildcard ==
    \/ call.op = "wildcard_match_fn"
    \/ call.op = "wildcard_match" /\ call.i = 0 /\ call.j = 0

\* The strictly increasing position sequences s <= p0 < ... < p(m-1) < |dna|,
\* each given as the set of its positions (0-based).
Alignments(dna, motif, s) ==
    {S \in SUBSET (s..(Len(dna) - 1)) : Cardinality(S) = Len(motif)}

Position(S, j) == CHOOSE p \in S : Cardinality({q \in S : q < p}) = j

AlignmentCost(dna, motif, S) ==
    Cardinality({j \in 0..(Len(motif) - 1) : dna[Position(S, j) + 1] # motif[j + 1]})

BruteForceMin(dna, motif, s) ==
    LET costs == {AlignmentCost(dna, motif, S) : S \in Alignments(dna, motif, s)}
    IN  CHOOSE d \in costs : \A e \in costs : d <= e

BruteForceHits(dna, motif, k) ==
    { <<s, BruteForceMin(dna, motif, s)>> :
        s \in {t \in 0..(Len(dna) - Len(motif)) : BruteForceMin(dna, motif, t) <= k} }

DnaScenarioPairs ==
    << <<0, 0>>, <<1, 0>>, <<2, 0>>, <<3, 0>>, <<4, 0>>, <<5, 0>>, <<6, 0>>,
       <<7, 1>>, <<8, 1>>, <<9, 1>>, <<10, 1>>, <<11, 1>> >>

DnaScenarioRun ==
    /\ dnarun.pc = "done"
    /\ dnarun.dna = DnaScenarioText
    /\ dnarun.motif = DnaScenarioMotif
    /\ dnarun.max_mismatches = 2

-----------------------------------------------------------------------------
(* The claims.                                                             *)

\* C1 as stated: for all T and P, the empty ones included, kmp_search(T, P)
\* returns in ascending order exactly the offsets s with T[s : s+|P|] == P.
C1_KmpAllInputs ==
    call.op = "kmp_search" =>
        result.value = Ascending(Occurrences(call.text, call.pattern))

\* C1, amended: for every T and every non-empty P, kmp_search(T, P) returns in
\* ascending order, without duplicates, exactly the offsets s with
\* T[s : s+|P|] == P, overlapping occurrences included; for the empty pattern
\* it returns the empty list.
C1_KmpOccurrences ==
    call.op = "kmp_search" =>
        result.value = IF call.pattern = <<>>
                       THEN <<>>
                       ELSE Ascending(Occurrences(call.text, call.pattern))

C1_OverlappingFound ==
    /\ call.op = "kmp_search"
    /\ call.text = <<"a", "a", "a">>
    /\ call.pattern = <<"a", "a">>
    /\ result.value = <<0, 1>>

\* C2 as stated: for all T and P, the starts of fuzzy_regex_search(T, P, 0) are
\* the offsets of kmp_search(T, P) in the same order, each with score 0.
C2_FuzzyAllInputs ==
    (call.op = "fuzzy_regex_search" /\ call.k = 0) =>
        /\ StartsOf(result.value) = kmp_search(call.text, call.pattern)
        /\ AllScoresZero(result.value)

\* C2, amended: for every T and every non-empty P, the starts of
\* fuzzy_regex_search(T, P, 0) are the offsets of kmp_search(T, P) in the same
\* order, each with score 0; for the empty pattern the fuzzy search reports
\* every offset 0..|T| with score 0 while kmp_search reports none.
C2_FuzzyZeroIsKmp ==
    (call.op = "fuzzy_regex_search" /\ call.k = 0) =>
        /\ AllScoresZero(result.value)
        /\ IF call.pattern # <<>>
           THEN StartsOf(result.value) = kmp_search(call.text, call.pattern)
           ELSE /\ StartsOf(result.value) = [k \in 1..(Len(call.text) + 1) |-> k - 1]
                /\ kmp_search(call.text, call.pattern) = <<>>

C2_TwoExactWindows ==
    /\ call.op = "fuzzy_regex_search"
    /\ call.k = 0
    /\ call.text = <<"a", "b", "a">>
    /\ call.pattern = <<"a">>
    /\ StartsOf(result.value) = <<0, 2>>

\* C3: for a non-empty list of corpora, parallel_search returns
\* [kmp_search(C0, P), ..., kmp_search(Cn, P)]: slot i holds the result for
\* corpus i, whatever the number of workers and the order they finish in.
C3_ParallelIsSequential ==
    (pool.pc = "done" /\ pool.texts # <<>>) =>
        pool.ret = [k \in 1..Len(pool.texts) |-> kmp_search(pool.texts[k], pool.pattern)]

C3_FinishedOutOfOrder ==
    /\ pool.pc = "done"
    /\ pool.n_workers = 2
    /\ pool.order = <<1, 0>>
    /\ pool.ret[1] # pool.ret[2]

\* C4: on a pattern without '*' and '?', either wildcard matcher applied to
\* the whole text returns true iff the text equals the pattern; the empty
\* pattern matches the empty text only.  The scanning loops never hand the
\* empty text to the method, so on the empty text the method is evaluated
\* at (0, 0) beside the call of the function.
C4_LiteralPatternIsEquality ==
    /\ (WholeTextWildcard /\ NoWildcards(call.pattern)) =>
           result.value = (call.text = call.pattern)
    /\ (call.op = "wildcard_match_fn" /\ call.text = <<>> /\ NoWildcards(call.pattern)) =>
           WildcardMethod(call.text, call.pattern,
                          [cache |-> <<>>, calls |-> 0, ev |-> <<>>], 0, 0).val
               = (call.pattern = <<>>)

C4_LiteralMatch ==
    /\ call.op = "wildcard_match"
    /\ call.i = 0 /\ call.j = 0
    /\ call.text = <<"a", "b">>
    /\ call.pattern = <<"a", "b">>
    /\ result.value = TRUE

\* C5: either wildcard matcher returns true on the pattern "*" for every
\* text, and on the empty text it returns true iff the pattern consists of
\* '*' symbols only.  The scanning loops never hand the empty text to the
\* method, so on the empty text the method is evaluated at (0, 0) beside the
\* call of the function.
C5_StarAndEmptyText ==
    /\ WholeTextWildcard =>
           /\ call.pattern = <<"*">> => result.value = TRUE
           /\ call.text = <<>> => result.value = OnlyStars(call.pattern)
    /\ (call.op = "wildcard_match_fn" /\ call.text = <<>>) =>
           WildcardMethod(call.text, call.pattern,
                          [cache |-> <<>>, calls |-> 0, ev |-> <<>>], 0, 0).val
               = OnlyStars(call.pattern)

C5_StarsOnEmptyText ==
    /\ call.op = "wildcard_match_fn"
    /\ call.text = <<>>
    /\ call.pattern = <<"*", "*">>
    /\ result.value = TRUE

\* C6: find_dna_motifs(dna, motif, k) returns a pair (s, d) exactly for the
\* starts s in 0..|dna|-|motif| whose brute-force minimum d over all strictly
\* increasing position sequences from s on is at most k, and reports that d.
C6_MotifsAreBruteForce ==
    call.op = "find_dna_motifs" =>
        /\ Range(result.value) = BruteForceHits(call.text, call.pattern, call.k)
        /\ Len(result.value) = Cardinality(Range(result.value))

C6_SkipBeatsWindow ==
    /\ call.op = "find_dna_motifs"
    /\ call.text = <<"b", "a", "b">>
    /\ call.pattern = <<"a", "b">>
    /\ call.k = 0
    /\ result.value = << <<0, 0>>, <<1, 0>> >>

\* C7 as stated: find_dna_motifs("AGCTTAGCTTAGCTTAGCTTA", "GATTACA", 2)
\* returns the empty list.
C7_ScenarioEmpty == DnaScenarioRun => dnarun.results = <<>>

\* C7, amended: find_dna_motifs("AGCTTAGCTTAGCTTAGCTTA", "GATTACA", 2) returns
\* (0,0) .. (6,0) and (7,1) .. (11,1): from the starts 0..11 the motif is found
\* as a subsequence with at most one mismatch; the starts 12..14 are left out.
C7_ScenarioPairs == DnaScenarioRun => dnarun.results = DnaScenarioPairs

C7_ScenarioRan == DnaScenarioRun /\ Len(dnarun.results) = 12

\* C8: wildcard_match("abcdefg", "a*b?d") returns false.
C8_WildcardScenario ==
    (/\ call.op = "wildcard_match_fn"
     /\ call.text = WildScenarioText
     /\ call.pattern = WildScenarioPattern) => result.value = FALSE

C8_WildcardScenarioRan ==
    /\ call.op = "wildcard_match_fn"
    /\ call.text = WildScenarioText
    /\ call.pattern = WildScenarioPattern
    /\ result.status = "ok"

\* C9: kmp_search("ABABDABACDABABCABAB", "ABABCABAB") returns exactly [10].
C9_KmpScenario ==
    (/\ call.op = "kmp_search"
     /\ call.text = KmpScenarioText
     /\ call.pattern = KmpScenarioPattern) => result.value = <<10>>

C9_KmpScenarioRan ==
    /\ call.op = "kmp_search"
    /\ call.text = KmpScenarioText
    /\ call.pattern = KmpScenarioPattern
    /\ result.status = "ok"

\* C10: a call of any matcher that repeats an earlier call on the same matcher
\* object returns what the earlier call returned, whatever calls were made in
\* between.
C10_Idempotent ==
    (ncalls > recorded.at /\ call = recorded.call) => result = recorded.result

C10_RepeatedAfterOtherCall ==
    /\ ncalls = 3
    /\ recorded.at = 1
    /\ call = recorded.call
    /\ call.op = "wildcard_match"
    /\ \E k \in 1..Len(wcache) : wcache[k].key[2] # call.pattern

\* C11: parallel_search with a worker count of zero or less fails (Pool
\* raises ValueError): no job is executed and no result list is returned.
C11_BadWorkerCountRaises ==
    (pool.pc # "idle" /\ pool.n_workers < 1) =>
        /\ pool.pc = "raised"
        /\ pool.error = "ValueError"
        /\ \A k \in 1..Len(pool.texts) : pool.runs[k] = 0
        /\ pool.ret = NoValue

C11_ZeroWorkersRaised ==
    /\ pool.pc = "raised"
    /\ pool.n_workers = 0
    /\ Len(pool.texts) = 2

\* C12 as stated: analyze_all returns a report for every corpus and every
\* pattern list, the empty list included; it never raises.
C12_AnalyzeNeverRaises == call.op = "analyze_all" => result.status = "ok"

C12_EmptyListRaised ==
    /\ call.op = "analyze_all"
    /\ call.text = <<"a", "b">>
    /\ call.patterns = <<>>
    /\ result.status = "IndexError"

\* The position-wise Hamming distance between T[s : s+|P|] and P.
Hamming(T, P, s) == Cardinality({k \in 1..Len(P) : T[s + k] # P[k]})

HammingStarts(T, P, d) == {s \in 0..(Len(T) - Len(P)) : Hamming(T, P, s) <= d}

\* C13: fuzzy_regex_search(T, P, d) reports, in ascending order, exactly the
\* starts s in 0..|T|-|P| whose window has Hamming distance <= d to P, each
\* with that distance as score; with |P| > |T| it returns the empty sequence.
C13_FuzzyIsHamming ==
    call.op = "fuzzy_regex_search" =>
        /\ result.status = "ok"
        /\ StartsOf(result.value) = Ascending(HammingStarts(call.text, call.pattern, call.k))
        /\ \A n \in 1..Len(result.value) :
               result.value[n].score =
                   Hamming(call.text, call.pattern, result.value[n].start_pos)
        /\ Len(call.pattern) > Len(call.text) => result.value = <<>>

C13_TwoWindowsOneMismatch ==
    /\ call.op = "fuzzy_regex_search"
    /\ call.text = <<"a", "b", "a">>
    /\ call.pattern = <<"b", "b">>
    /\ call.k = 1
    /\ StartsOf(result.value) = <<0, 1>>
    /\ result.value[1].score = 1

\* A list of (start, mismatches) pairs in ascending order of start, equal
\* starts in ascending order of mismatches.
OrderedByStart(pairs) ==
    \A a, b \in 1..Len(pairs) :
        a < b => \/ pairs[a][1] < pairs[b][1]
                 \/ pairs[a][1] = pairs[b][1] /\ pairs[a][2] <= pairs[b][2]

\* C14 as stated: the list returned by find_dna_motifs and the "motifs" entry
\* of analyze_all, for any pattern list, are ordered by ascending start
\* offset, ties broken by ascending mismatch count.
C14_MotifsOrdered ==
    /\ call.op = "find_dna_motifs" => OrderedByStart(result.value)
    /\ (call.op = "analyze_all" /\ result.status = "ok") =>
           OrderedByStart(result.value.motifs)

C14_AnalyzeMotifsUnordered ==
    /\ call.op = "analyze_all"
    /\ call.text = <<"a", "b">>
    /\ call.patterns = << <<"a">>, <<"*", "b">> >>
    /\ call.k = 1
    /\ result.value.motifs = << <<0, 0>>, <<1, 1>>, <<0, 1>> >>

\* C15 as stated: the memo caches are destroyed at query end, so whenever a
\* query starts the caches of the matcher hold no entry of an earlier query.
C15_NoCachePersistence == wcache = <<>> /\ mcache = <<>>

\* A second query on the matcher is answered from an entry the first query
\* left in the cache: no body runs.
C15_AnsweredFromEarlierQuery ==
    /\ ncalls = 2
    /\ call.op = "wildcard_match"
    /\ evals = <<>>
    /\ \E k \in 1..Len(wcache) :
           wcache[k].key = <<call.text, call.pattern, call.i, call.j>>

\* What a call returns on a matcher whose counters are 0 and whose caches
\* are empty.
FreshResult(c) ==
    LET fresh == [cache |-> <<>>, calls |-> 0, ev |-> <<>>]
    IN  CASE c.op = "wildcard_match" ->
                Ok(WildcardMethod(c.text, c.pattern, fresh, c.i, c.j).val)
          [] c.op = "motif_distance" ->
                Ok(MotifMethod(c.text, c.pattern, fresh, c.i, c.j).val)
          [] c.op = "kmp_search" -> Ok(kmp_search(c.text, c.pattern))
          [] c.op = "fuzzy_regex_search" ->
                Ok(fuzzy_regex_search(c.text, c.pattern, c.k))
          [] c.op = "analyze_all" ->
                LET r == analyze_all(c.text, c.patterns, c.k, <<>>, <<>>, 0)
                IN  [status |-> r.status, value |-> r.value]
          [] c.op = "wildcard_match_fn" -> Ok(wildcard_match(c.text, c.pattern).val)
          [] c.op = "find_dna_motifs" ->
                Ok(find_dna_motifs(c.text, c.pattern, c.k).results)

\* C16: the result of a matcher call does not depend on the stats counters
\* nor on what the caches already hold: in whatever state the matcher is, the
\* call returns what it returns on a matcher with counters 0 and empty caches;
\* the counter increment never makes a call fail.
C16_CounterDoesNotInterfere == call.op # "none" => result = FreshResult(call)

C16_CalledWithCounterAdvanced ==
    /\ ncalls = 3
    /\ call.op = "wildcard_match"
    /\ call.pattern = <<"*", "b">>
    /\ evals # <<>>
    /\ stats.calls = 8
    /\ result = Ok(TRUE)

RECURSIVE Flatten(_)
Flatten(seqs) == IF seqs = <<>> THEN <<>> ELSE Head(seqs) \o Flatten(Tail(seqs))

FreshCache == [cache |-> <<>>, calls |-> 0, ev |-> <<>>]

\* The starts 0..|text|-1 from which one pattern matches the rest of the text.
WildcardStarts(text, pattern) ==
    Ascending({st \in 0..(Len(text) - 1) :
                  WildcardMethod(text, pattern, FreshCache, st, 0).val})

\* The (start, distance) pairs of one pattern within the budget.
MotifPairs(text, pattern, k) ==
    LET dist(st) == MotifMethod(text, pattern, FreshCache, st, 0).val
        starts == Ascending({st \in 0..(Len(text) - Len(pattern)) : LeqInf(dist(st), k)})
    IN  [n \in 1..Len(starts) |-> <<starts[n], dist(starts[n])>>]

\* C17: in the report of analyze_all(text, patterns, k) the wildcard, motifs
\* and kmp entries hold the results of every pattern of the list, pattern by
\* pattern, while the fuzzy_regex entry is fuzzy_regex_search(text,
\* patterns[0]) and so does not depend on patterns[1..].
C17_ReportCoverage ==
    (call.op = "analyze_all" /\ result.status = "ok") =>
        LET ps == call.patterns
            rep == result.value
        IN  /\ [n \in 1..Len(rep.wildcard) |-> rep.wildcard[n][1]] =
                   Flatten([p \in 1..Len(ps) |-> WildcardStarts(call.text, ps[p])])
            /\ rep.motifs = Flatten([p \in 1..Len(ps) |-> MotifPairs(call.text, ps[p], call.k)])
            /\ DOMAIN rep.kmp = Range(ps)
            /\ \A q \in Range(ps) : rep.kmp[q] = kmp_search(call.text, q)
            /\ rep.fuzzy_regex =
                   fuzzy_regex_search(call.text, ps[1], FuzzyDefaultMaxDistance)

C17_TwoPatternsReported ==
    /\ call.op = "analyze_all"
    /\ call.text = <<"a", "b">>
    /\ call.patterns = << <<"a">>, <<"*", "b">> >>
    /\ call.k = 1
    /\ DOMAIN result.value.kmp = { <<"a">>, <<"*", "b">> }
    /\ StartsOf(result.value.fuzzy_regex) = <<0, 1>>
    /\ Len(result.value.wildcard) = 2

\* C18: kmp_search returns the empty sequence whenever the pattern is empty
\* or the text is empty.
C18_KmpEmptyInputs ==
    (call.op = "kmp_search" /\ (call.pattern = <<>> \/ call.text = <<>>)) =>
        result = Ok(<<>>)

C18_EmptyPatternSearched ==
    /\ call.op = "kmp_search"
    /\ call.pattern = <<>>
    /\ call.text = <<"a", "b", "a">>
    /\ result = Ok(<<>>)

\* The lengths k < n of the prefixes of pattern[0..n-1] that are also its suffixes.
Borders(pattern, n) ==
    {k \in 0..(n - 1) : \A d \in 1..k : pattern[d] = pattern[n - k + d]}

LongestBorder(pattern, n) ==
    CHOOSE k \in Borders(pattern, n) : \A other \in Borders(pattern, n) : other <= k

\* C19: for every non-empty pattern the prefix table built by kmp_search has
\* length |pattern|, and its entry i is the length of the longest proper
\* prefix of pattern[0..i] that is also a suffix of pattern[0..i].
C19_PrefixTable ==
    (call.op = "kmp_search" /\ call.pattern # <<>> /\ call.text # <<>>) =>
        LET lps == KmpLps(call.pattern)
        IN  /\ Len(lps) = Len(call.pattern)
            /\ \A n \in 1..Len(call.pattern) : lps[n] = LongestBorder(call.pattern, n)

C19_ScenarioTableBuilt ==
    /\ call.op = "kmp_search"
    /\ call.text = KmpScenarioText
    /\ call.pattern = KmpScenarioPattern
    /\ KmpLps(call.pattern) = <<0, 0, 1, 2, 0, 1, 2, 3, 4>>
    /\ result = Ok(<<10>>)

\* C20: during one wildcard query every pair (i, j) has its body evaluated
\* at most once, the pairs that hit a base case included; every later
\* request for the pair is answered from the memo cache.
C20_EachPairOnce ==
    call.op \in {"wildcard_match", "wildcard_match_fn"} =>
        \A k \in DOMAIN evals : evals[k] <= 1

\* The standalone function evaluates the end-of-text pair (2, 2) twice.
C20_BaseCaseTwice ==
    /\ call.op = "wildcard_match_fn"
    /\ call.text = WildRepeatText
    /\ call.pattern = WildRepeatPattern
    /\ result = Ok(FALSE)
    /\ evals[<<2, 2>>] = 2
    /\ \A k \in DOMAIN evals : k # <<2, 2>> => evals[k] = 1

\* Every entry the cache holds for the session's text carries the value of
\* its own (text, pattern, i, j).
OwnValues(cache, Fresh(_, _, _, _)) ==
    \A k \in 1..Len(cache) :
        (Len(cache[k].key) = 4 /\ cache[k].key[1] = SessionText) =>
            cache[k].val = Fresh(cache[k].key[1], cache[k].key[2],
                                 cache[k].key[3], cache[k].key[4])

FreshWildcard(text, pattern, i, j) == WildcardMethod(text, pattern, FreshCache, i, j).val

FreshMotif(text, pattern, i, j) == MotifMethod(text, pattern, FreshCache, i, j).val

\* C21: over one matcher, whatever the order of the wildcard and motif
\* queries on different (text, pattern) pairs, the value cached for the
\* positions (i, j) of a pair is the value of that pair and a query is
\* never answered with the value of another pair, also once the caches are
\* full and every store evicts an entry.
C21_CacheIsolation ==
    /\ call.op \in {"wildcard_match", "motif_distance"} => result = FreshResult(call)
    /\ OwnValues(wcache, FreshWildcard)
    /\ OwnValues(mcache, FreshMotif)
    /\ Len(wcache) <= CacheMaxSize
    /\ Len(mcache) <= CacheMaxSize

\* Both pairs of the session are cached at the positions (0, 0) with different
\* values, in a full cache from which older entries have been evicted.
C21_TwoPairsSamePositions ==
    /\ Len(wcache) = CacheMaxSize
    /\ wcache[1] # FullWildcardCache[1]
    /\ CacheHas(wcache, <<SessionText, <<"*", "b">>, 0, 0>>)
    /\ CacheHas(wcache, <<SessionText, <<"a">>, 0, 0>>)
    /\ CacheGet(wcache, <<SessionText, <<"*", "b">>, 0, 0>>) = TRUE
    /\ CacheGet(wcache, <<SessionText, <<"a">>, 0, 0>>) = FALSE
    /\ call.op = "wildcard_match"
    /\ call.pattern = <<"a">>
    /\ result = Ok(FALSE)

\* C22: in the scan loop of kmp_search the text index i never decreases and
\* every iteration increases i or strictly decreases the pattern index j; in
\* the prefix-table loop every iteration increases i or strictly decreases
\* length; and a call that has entered its loops returns.
C22_KmpProgress ==
    /\ [][(kmprun.pc = "scan" /\ kmprun'.pc = "scan") =>
              /\ kmprun'.i >= kmprun.i
              /\ kmprun'.i > kmprun.i \/ kmprun'.j < kmprun.j]_vars
    /\ [][(kmprun.pc = "lps" /\ kmprun'.pc = "lps") =>
              /\ kmprun'.i >= kmprun.i
              /\ kmprun'.i > kmprun.i \/ kmprun'.length < kmprun.length]_vars
    /\ (kmprun.pc \in {"lps", "scan"}) ~> (kmprun.pc = "done")

\* The scenario search has returned, after falling back in the pattern.
C22_ScenarioSearchReturned ==
    /\ kmprun.pc = "done"
    /\ kmprun.text = KmpScenarioText
    /\ kmprun.pattern = KmpScenarioPattern
    /\ kmprun.matches = <<10>>
    /\ kmprun.i = Len(KmpScenarioText)

\* C23: in parallel_search with at least one worker every job (corpus_k,
\* pattern) is executed exactly once and by one worker: no job is run twice,
\* no chunk is held by two workers or held while still queued, a finished
\* chunk whose result waits to be stored is neither held nor queued; and the call
\* returns only when every job has run, with one result per job and no
\* missing entry, whatever the order in which the workers take and finish.
C23_JobsRunOnce ==
    (pool.pc \in {"running", "done"}) =>
        /\ \A k \in 1..Len(pool.texts) : pool.runs[k] <= 1
        /\ \A v, w \in 1..pool.n_workers :
               (v # w /\ pool.busy[v] # Idle) => pool.busy[v] # pool.busy[w]
        /\ \A w \in 1..pool.n_workers : \A q \in 1..Len(pool.queue) :
               pool.busy[w] # pool.queue[q]
        /\ \A r \in 1..Len(pool.outqueue) :
               /\ \A w \in 1..pool.n_workers : pool.busy[w] # pool.outqueue[r]
               /\ \A q \in 1..Len(pool.queue) : pool.queue[q] # pool.outqueue[r]
               /\ \A k \in ChunkSlots(pool, pool.outqueue[r]) :
                      pool.runs[k] = 1 /\ pool.value[k] = NoValue
        /\ pool.pc = "done" =>
               /\ pool.outqueue = <<>>
               /\ \A k \in 1..Len(pool.texts) : pool.runs[k] = 1
               /\ Len(pool.ret) = Len(pool.texts)
               /\ \A k \in 1..Len(pool.texts) :
                      /\ pool.ret[k] # NoValue
                      /\ pool.ret[k] = kmp_search(pool.texts[k], pool.pattern)
               /\ \A w \in 1..pool.n_workers : pool.busy[w] = Idle
               /\ pool.queue = <<>>

\* Three jobs on two workers have returned, the second job finishing first.
C23_ReturnedOutOfOrder ==
    /\ pool.pc = "done"
    /\ pool.n_workers = 2
    /\ Len(pool.texts) = 3
    /\ pool.order[1] = 1
    /\ \A k \in 1..3 : pool.runs[k] = 1
    /\ \E k \in 1..3 : pool.ret[k] # <<>>

\* C24: in every game in which the human (X) moves first and the AI
\* answers each move with get_ai_move, whatever the human's legal moves and
\* whether or not the style bonus applies, no board has three X in a line and
\* the human's win is never announced.
C24_AiUnbeatable ==
    game.pc # "none" =>
        /\ check_winner(game.board) # "X"
        /\ game.announced # "YOU WIN"

\* A game played to a full board while the style bonus applied.
C24_FullBoardWithBonus ==
    /\ game.game_stats.moves = 9
    /\ game.player_stats.aggressive > game.player_stats.defensive
    /\ check_winner(game.board) = "Draw"

\* C25: every game of play_game ends normally with one of its three
\* announcements; when the human's move fills the board with no winning line
\* the draw is announced and the loop exits without an error.
C25_GameEndsNormally ==
    /\ game.pc # "raised"
    /\ (game.pc # "none" /\ check_winner(game.board) = "Draw") => game.announced = "DRAW"

\* The human's fifth move has filled the board with no line, and the
\* announcement raised NameError.
C25_DrawRaised ==
    /\ game.pc = "raised"
    /\ game.error = "NameError"
    /\ game.announced = ""
    /\ game.game_stats.moves = 9
    /\ check_winner(game.board) = "Draw"

\* a <= b for two mismatch counts, either of which may be float('inf').
LeqMismatches(a, b) == b = Inf \/ (a # Inf /\ a <= b)

FreshMinMismatches(dna, motif, i, j) ==
    min_mismatches(dna, motif, [memo |-> <<>>, ev |-> <<>>], i, j).val

\* C26: the motif minimum is monotone in the start offset,
\* min_mismatches(i, j) <= min_mismatches(i + 1, j) for i < |dna|, in
\* find_dna_motifs and in motif_distance; hence the starts find_dna_motifs
\* returns are downward closed and the reported mismatch counts do not
\* decrease with the start.
C26_MotifMinimumMonotone ==
    (dnarun.pc \notin {"none", "idle"}) =>
        /\ \A k \in DOMAIN dnarun.memo :
               (k[1] < Len(dnarun.dna) /\ <<k[1] + 1, k[2]>> \in DOMAIN dnarun.memo) =>
                   LeqMismatches(dnarun.memo[k], dnarun.memo[<<k[1] + 1, k[2]>>])
        /\ \A n \in 1..Len(dnarun.results) : dnarun.results[n][1] = n - 1
        /\ \A n \in 1..(Len(dnarun.results) - 1) :
               dnarun.results[n][2] <= dnarun.results[n + 1][2]
        /\ (dnarun.pc = "done" /\ Len(dnarun.dna) <= MaxTextLen) =>
               \A i \in 0..(Len(dnarun.dna) - 1) : \A j \in 0..Len(dnarun.motif) :
                   /\ LeqMismatches(FreshMinMismatches(dnarun.dna, dnarun.motif, i, j),
                                    FreshMinMismatches(dnarun.dna, dnarun.motif, i + 1, j))
                   /\ LeqMismatches(FreshMotif(dnarun.dna, dnarun.motif, i, j),
                                    FreshMotif(dnarun.dna, dnarun.motif, i + 1, j))

\* The scenario scan has returned starts 0..11 with counts rising from 0 to 1,
\* and the starts after them are over the budget.
C26_ScenarioCountsRise ==
    /\ DnaScenarioRun
    /\ Len(dnarun.results) = 12
    /\ dnarun.results[7] = <<6, 0>>
    /\ dnarun.results[8] = <<7, 1>>
    /\ dnarun.memo[<<12, 0>>] = 4

\* C27: for every start s in 0..|text|-|pattern|, motif_distance(text,
\* pattern, s, 0) is finite and at most the Hamming distance between the
\* window text[s : s+|pattern|] and the pattern; hence, for one budget k,
\* every start fuzzy_regex_search reports for a pattern is in the motifs entry
\* of analyze_all with a mismatch count no larger.
C27_MotifWithinHamming ==
    /\ (call.op = "motif_distance" /\ call.j = 0
            /\ call.i <= Len(call.text) - Len(call.pattern)) =>
           /\ result.value # Inf
           /\ result.value <= Hamming(call.text, call.pattern, call.i)
    /\ (call.op = "analyze_all" /\ result.status = "ok") =>
           \A n \in 1..Len(call.patterns) :
               LET fuzzy == fuzzy_regex_search(call.text, call.patterns[n], call.k)
               IN  \A f \in 1..Len(fuzzy) :
                       \E e \in 1..Len(result.value.motifs) :
                           /\ result.value.motifs[e][1] = fuzzy[f].start_pos
                           /\ result.value.motifs[e][2] <= fuzzy[f].score

\* A start whose window has one mismatch while a later alignment has none.
C27_MotifBelowHamming ==
    /\ call.op = "motif_distance"
    /\ call.text = <<"b", "a", "a">>
    /\ call.pattern = <<"a", "a">>
    /\ call.i = 0
    /\ call.j = 0
    /\ Hamming(call.text, call.pattern, 0) = 1
    /\ result = Ok(0)

\* A 0-based index is inside a sequence of length len.
InBounds(index, len) == 0 <= index /\ index < len

\* The reads of the next iteration of the prefix-table loop.
LpsReadsInBounds ==
    LET m == Len(kmprun.pattern)
    IN  /\ InBounds(kmprun.i, m)
        /\ InBounds(kmprun.length, m)
        /\ (kmprun.pattern[kmprun.i + 1] # kmprun.pattern[kmprun.length + 1]
                /\ kmprun.length # 0) => InBounds(kmprun.length - 1, Len(kmprun.lps))
        /\ InBounds(kmprun.i, Len(kmprun.lps))

\* The reads of the next iteration of the scan loop: pattern[j] and text[i]
\* of the first test, then lps[j - 1] after a full match, or pattern[j],
\* text[i] and lps[j - 1] of the mismatch branch.
ScanReadsInBounds ==
    LET m == Len(kmprun.pattern)
        n == Len(kmprun.text)
    IN  /\ InBounds(kmprun.j, m)
        /\ InBounds(kmprun.i, n)
        /\ LET hit == kmprun.pattern[kmprun.j + 1] = kmprun.text[kmprun.i + 1]
               i == IF hit THEN kmprun.i + 1 ELSE kmprun.i
               j == IF hit THEN kmprun.j + 1 ELSE kmprun.j
           IN  IF j = m
               THEN InBounds(j - 1, Len(kmprun.lps))
               ELSE i < n =>
                        /\ InBounds(j, m)
                        /\ InBounds(i, n)
                        /\ (kmprun.pattern[j + 1] # kmprun.text[i + 1] /\ j # 0) =>
                               InBounds(j - 1, Len(kmprun.lps))

\* C28: in every state of the prefix-table loop and of the scan loop of
\* kmp_search, every read of pattern[j], pattern[length], text[i] and
\* lps[j - 1] uses an index inside its sequence, and every prefix-table entry
\* satisfies 0 <= lps[i] <= i.
C28_KmpIndexSafety ==
    /\ (kmprun.pc = "lps" /\ kmprun.i < Len(kmprun.pattern)) => LpsReadsInBounds
    /\ (kmprun.pc = "scan" /\ kmprun.i < Len(kmprun.text)) => ScanReadsInBounds
    /\ kmprun.pc \in {"lps", "scan", "done"} =>
           /\ Len(kmprun.lps) = Len(kmprun.pattern)
           /\ \A k \in 1..Len(kmprun.lps) : 0 <= kmprun.lps[k] /\ kmprun.lps[k] <= k - 1

\* The scan of the scenario is at a mismatch with j = 2 and is about to fall
\* back through lps[j - 1].
C28_ScanFallsBack ==
    /\ kmprun.pc = "scan"
    /\ kmprun.text = KmpScenarioText
    /\ kmprun.pattern = KmpScenarioPattern
    /\ kmprun.i = 4
    /\ kmprun.j = 2
    /\ kmprun.pattern[3] # kmprun.text[5]
    /\ kmprun.lps = <<0, 0, 1, 2, 0, 1, 2, 3, 4>>

\* C29: after any sequence of matcher operations cache_hits and total_time
\* are still 0; calls grows by one for every wildcard_match body that runs,
\* that is for every entry added to the wildcard cache, and not at all for a
\* query served from the cache; motif_distance, kmp_search and
\* fuzzy_regex_search leave stats unchanged.
C29_StatsFrame ==
    /\ [](stats.cache_hits = 0 /\ stats.total_time = 0)
    /\ [][/\ stats'.calls - stats.calls = Len(wcache') - Len(wcache)
          /\ (ncalls' = ncalls + 1
                  /\ call'.op \in {"motif_distance", "kmp_search", "fuzzy_regex_search"})
                 => stats' = stats
          /\ (ncalls' = ncalls + 1 /\ call'.op = "wildcard_match") =>
                 /\ stats'.calls = stats.calls + Cardinality(DOMAIN evals')
                 /\ CacheHas(wcache, <<call'.text, call'.pattern, call'.i, call'.j>>)
                        => stats' = stats
          /\ (ncalls' = ncalls + 1 /\ call'.op \notin {"wildcard_match", "analyze_all"})
                 => stats' = stats]_vars

\* The same wildcard query has been made twice; the second left calls at 5.
C29_RepeatedQueryNotCounted ==
    /\ ncalls = 2
    /\ call.op = "wildcard_match"
    /\ call.pattern = <<"*", "b">>
    /\ call.i = 0
    /\ recorded.call = call
    /\ recorded.at = 1
    /\ evals = <<>>
    /\ stats = [calls |-> 5, cache_hits |-> 0, total_time |-> 0]

====
